---- MODULE Spec2Model ----
(***************************************************************************)
(* A model of scripts/parse-cats-results.py: the CATS result ingestion     *)
(* pipeline (main, CATSResultsParser.process_directory and what it calls)  *)
(* over a relational store with SQLite's semantics.  Spec is the process   *)
(* from main's entry to its exit; ClassifySpec is detect_false_positive    *)
(* and insert_test_record called on one record; FourSpec is the process    *)
(* on directories of four records.                                         *)
(*                                                                         *)
(* Text is modelled as Python models it: a string is a sequence of         *)
(* one-character strings, so that replace/strip/int and the substring      *)
(* tests of the classifier are computed, not tabulated.                    *)
(***************************************************************************)
EXTENDS Integers, Sequences, FiniteSets, TLC

\* ------------------------------------------------------------------------
\* Bounds of the model
\* ------------------------------------------------------------------------

\* Largest number of Test*.json files in the input directory.
MaxFiles == 3

\* Largest --batch-size explored (batch sizes 1..MaxBatchSize).
MaxBatchSize == 2

\* Largest number of commits that fail (the store becoming unavailable).
MaxCommitFailures == 1

\* Largest number of files in a directory processed with other arguments
\* than the default ones.
MaxFilesOtherArgs == 1

\* Largest number of times a record is inserted on its own.
MaxInserts == 1

\* ------------------------------------------------------------------------
\* Python strings
\* ------------------------------------------------------------------------

Digits == {"0","1","2","3","4","5","6","7","8","9"}

DigitVal(c) ==
  CASE c = "0" -> 0 [] c = "1" -> 1 [] c = "2" -> 2 [] c = "3" -> 3
    [] c = "4" -> 4 [] c = "5" -> 5 [] c = "6" -> 6 [] c = "7" -> 7
    [] c = "8" -> 8 [] c = "9" -> 9

\* str.isspace() characters of the modelled alphabet.
Whitespace == {" ", "\t", "\n"}

\* s[i:i+len(p)] == p
StartsWithAt(s, p, i) ==
  /\ i + Len(p) - 1 <= Len(s)
  /\ SubSeq(s, i, i + Len(p) - 1) = p

\* s.startswith(p)
StartsWith(s, p) == StartsWithAt(s, p, 1)

\* p in s
Contains(s, p) == \E i \in 1..(Len(s) - Len(p) + 1) : StartsWithAt(s, p, i)

\* s.replace(old, new) from position i on, old non-empty: leftmost
\* non-overlapping occurrences.
RECURSIVE ReplaceFrom(_, _, _, _)
ReplaceFrom(s, old, new, i) ==
  IF i > Len(s) THEN <<>>
  ELSE IF StartsWithAt(s, old, i)
       THEN new \o ReplaceFrom(s, old, new, i + Len(old))
       ELSE <<s[i]>> \o ReplaceFrom(s, old, new, i + 1)

RECURSIVE LStrip(_)
LStrip(s) ==
  IF s # <<>> /\ Head(s) \in Whitespace THEN LStrip(Tail(s)) ELSE s

RECURSIVE RStrip(_)
RStrip(s) ==
  IF s # <<>> /\ s[Len(s)] \in Whitespace
  THEN RStrip(SubSeq(s, 1, Len(s) - 1)) ELSE s

\* s.strip()
Strip(s) == LStrip(RStrip(s))

RECURSIVE DigitsValue(_, _)
DigitsValue(s, acc) ==
  IF s = <<>> THEN acc
  ELSE IF Head(s) = "_" THEN DigitsValue(Tail(s), acc)
       ELSE DigitsValue(Tail(s), 10 * acc + DigitVal(Head(s)))

\* int(s): surrounding whitespace, an optional sign, decimal digits with
\* single underscores between digits; anything else is a ValueError.
PyInt(s) ==
  LET t    == Strip(s)
      sgn  == t # <<>> /\ Head(t) \in {"+", "-"}
      body == IF sgn THEN Tail(t) ELSE t
      ok   == /\ body # <<>>
              /\ \A k \in 1..Len(body) : body[k] \in Digits \cup {"_"}
              /\ body[1] \in Digits
              /\ body[Len(body)] \in Digits
              /\ \A k \in 1..(Len(body) - 1) :
                   ~(body[k] = "_" /\ body[k + 1] = "_")
      mag  == IF ok THEN DigitsValue(body, 0) ELSE 0
  IN  [ok |-> ok, val |-> IF sgn /\ Head(t) = "-" THEN 0 - mag ELSE mag]

\* CATSResultsParser.extract_test_number on a str argument.
extract_test_number(test_id) ==
  LET r == PyInt(Strip(ReplaceFrom(test_id, <<"T","e","s","t"," ">>, <<>>, 1)))
  IN  IF r.ok THEN r.val ELSE 0

\* ------------------------------------------------------------------------
\* JSON documents and Python values
\* ------------------------------------------------------------------------

\* A JSON (and Python) value carries its type: str, null (None), int,
\* dict (a function from key names to values) or list (a sequence).
JStr(s)  == [kind |-> "str",  v |-> s]
JNull    == [kind |-> "null", v |-> <<>>]
JInt(n)  == [kind |-> "int",  v |-> n]
JDict(d) == [kind |-> "dict", v |-> d]
JList(q) == [kind |-> "list", v |-> q]

\* {} : the dict (or function) with no key
EmptyDict == [k \in {} |-> 0]

\* bool(x)
Truthy(x) ==
  CASE x.kind = "str"  -> x.v # <<>>
    [] x.kind = "null" -> FALSE
    [] x.kind = "int"  -> x.v # 0
    [] x.kind = "dict" -> DOMAIN x.v # {}
    [] x.kind = "list" -> x.v # <<>>

\* x or y
Or(x, y) == IF Truthy(x) THEN x ELSE y

\* d.get(key, default) on a dict d
Get(d, key, default) == IF key \in DOMAIN d.v THEN d.v[key] ELSE default

\* hash(x) succeeds (dict keys, membership in a dict)
Hashable(x) == x.kind \in {"str", "null", "int"}

\* ------------------------------------------------------------------------
\* The relational store (SCHEMA_SQL) with SQLite's semantics
\* ------------------------------------------------------------------------

\* SQL NULL: distinct from every text value (texts hold one-character items).
Null == <<"NULL">>

\* sqlite3 binds str, None and int parameters; dict and list are refused
\* (ProgrammingError: type is not supported).
Bindable(x) == x.kind \in {"str", "null", "int"}

\* str(n) for n >= 0, and for any integer
RECURSIVE NatText(_)
NatText(n) ==
  IF n < 10 THEN << CHOOSE c \in Digits : DigitVal(c) = n >>
  ELSE NatText(n \div 10) \o << CHOOSE c \in Digits : DigitVal(c) = n % 10 >>

\* The value a bound parameter stores in a TEXT column: None is NULL, a str
\* is itself, an int is converted to its decimal text (column affinity).
BindText(x) ==
  CASE x.kind = "null" -> Null
    [] x.kind = "str"  -> x.v
    [] x.kind = "int"  -> IF x.v < 0 THEN << "-" >> \o NatText(-x.v)
                          ELSE NatText(x.v)

\* s is an integer literal for SQLite: blanks, an optional sign, digits
SqlIntegerText(s) ==
  LET u == Strip(s)
      d == IF u # <<>> /\ u[1] \in {"+", "-"} THEN Tail(u) ELSE u
  IN  d # <<>> /\ \A k \in 1..Len(d) : d[k] \in Digits

\* The value a bound parameter stores in an INTEGER column: an int is
\* itself, a str holding an integer literal is converted to the integer,
\* any other str stays text.
BindInteger(x) ==
  CASE x.kind = "null" -> Null
    [] x.kind = "int"  -> x.v
    [] x.kind = "str"  -> IF SqlIntegerText(x.v) THEN PyInt(Strip(x.v)).val ELSE x.v

\* The store right after create_schema on a new database file: every table
\* empty, and no AUTOINCREMENT id handed out yet (sqlite_sequence).
EmptyDb ==
  [result_types |-> {}, fuzzers |-> {}, servers |-> {}, paths |-> {},
   http_methods |-> {}, tests |-> {}, requests |-> {}, responses |-> {},
   request_headers |-> {}, response_headers |-> {},
   seq |-> [t \in {"result_types", "fuzzers", "servers", "paths",
                   "http_methods", "tests", "requests", "responses",
                   "request_headers", "response_headers"} |-> 0]]

\* Variant: a table without its UNIQUE constraint, where INSERT OR IGNORE
\* ignores nothing.  C8 does not survive it.
InsertIgnoringNothing(db, t, row, accepted) ==
  [db EXCEPT ![t] = @ \cup {[id |-> db.seq[t] + 1] @@ row}, !.seq[t] = @ + 1]

\* INSERT OR IGNORE INTO <t> ...: the row is added under the next
\* AUTOINCREMENT id unless a NOT NULL or UNIQUE constraint rejects it
\* (accepted = FALSE), in which case the statement does nothing but still
\* uses up the id.
InsertOrIgnore(db, t, row, accepted) ==
  LET id == db.seq[t] + 1
  IN  [db EXCEPT ![t]     = IF accepted THEN @ \cup {[id |-> id] @@ row} ELSE @,
                 !.seq[t] = id]

\* INSERT INTO <t> ... of a row the constraints accept: the row is added
\* under the next AUTOINCREMENT id.
InsertRow(db, t, row) ==
  LET id == db.seq[t] + 1
  IN  [db EXCEPT ![t] = @ \cup {[id |-> id] @@ row}, !.seq[t] = id]

\* cursor.lastrowid after InsertRow
LastRowId(db, t) == db.seq[t]

Ids(rows) == {r.id : r \in rows}

\* ------------------------------------------------------------------------
\* Dimension resolver: the caches and get_or_create_*
\* ------------------------------------------------------------------------

\* A parser state: the connection's view of the store and the five caches
\* (Python dicts, as functions from keys to ids).
EmptyCaches ==
  [result_type |-> EmptyDict, fuzzer |-> EmptyDict, server |-> EmptyDict,
   path |-> EmptyDict, method |-> EmptyDict]

\* Outcomes of a call: it returned val, or it raised.
Return(s, val) == [s |-> s, raised |-> FALSE, val |-> val]
Raise(s)       == [s |-> s, raised |-> TRUE,  val |-> 0]

\* The shared body of get_or_create_result_type / _fuzzer / _server /
\* _method: table t with UNIQUE NOT NULL column col, cache field c.
GetOrCreateByName(s, t, col, c, name) ==
  IF ~Hashable(name) THEN Raise(s)                \* name in cache: TypeError
  ELSE IF name \in DOMAIN s.cache[c] THEN Return(s, s.cache[c][name])
  ELSE
    LET accepted == /\ name.kind # "null"
                    /\ \A r \in s.db[t] : r[col] # BindText(name)
        db1  == InsertOrIgnore(s.db, t, (col :> BindText(name)), accepted)
        \* SELECT id FROM t WHERE col = ?   (never true of NULL)
        rows == {r \in db1[t] : name.kind # "null" /\ r[col] = BindText(name)}
    IN  IF rows = {}
        THEN Raise([s EXCEPT !.db = db1])         \* fetchone()[0] on None
        ELSE LET id == (CHOOSE r \in rows : TRUE).id
             IN  Return([db    |-> db1,
                         cache |-> [s.cache EXCEPT ![c] = (name :> id) @@ @]],
                        id)

get_or_create_result_type(s, name) ==
  GetOrCreateByName(s, "result_types", "name", "result_type", name)

get_or_create_fuzzer(s, name) ==
  GetOrCreateByName(s, "fuzzers", "name", "fuzzer", name)

get_or_create_server(s, url) ==
  GetOrCreateByName(s, "servers", "base_url", "server", url)

get_or_create_method(s, method) ==
  GetOrCreateByName(s, "http_methods", "method", "method", method)

get_or_create_path(s, path, contract_path) ==
  LET cp_key == Or(contract_path, JStr(<<>>))      \* contract_path or ''
      cp_sql == Or(contract_path, JNull)           \* contract_path or None
      key    == <<path, cp_key>>
  IN
  IF ~Hashable(path) \/ ~Hashable(cp_key) THEN Raise(s)
  ELSE IF key \in DOMAIN s.cache.path THEN Return(s, s.cache.path[key])
  ELSE
    LET accepted == /\ path.kind # "null"
                    /\ \A r \in s.db.paths : r.path # BindText(path)
        db1  == InsertOrIgnore(s.db, "paths",
                  [path |-> BindText(path), contract_path |-> BindText(cp_sql)],
                  accepted)
        \* WHERE path = ? AND (contract_path = ?
        \*                     OR (contract_path IS NULL AND ? IS NULL))
        rows == {r \in db1.paths :
                   /\ path.kind # "null" /\ r.path = BindText(path)
                   /\ \/ cp_sql.kind # "null" /\ r.contract_path = BindText(cp_sql)
                      \/ r.contract_path = Null /\ cp_sql.kind = "null"}
    IN  IF rows = {}
        THEN Raise([s EXCEPT !.db = db1])
        ELSE LET id == (CHOOSE r \in rows : TRUE).id
             IN  Return([db    |-> db1,
                         cache |-> [s.cache EXCEPT !.path = (key :> id) @@ @]],
                        id)

\* {row[1]: row[0] for row in cursor.fetchall()}
DictOf(rows, col) ==
  [k \in {JStr(r[col]) : r \in rows} |->
     (CHOOSE r \in rows : r[col] = k.v).id]

\* CATSResultsParser._load_caches: the caches rebuilt from the store.
load_caches(db) ==
  [result_type |-> DictOf(db.result_types, "name"),
   fuzzer      |-> DictOf(db.fuzzers, "name"),
   server      |-> DictOf(db.servers, "base_url"),
   path        |->
     [k \in {<<JStr(r.path),
               JStr(IF r.contract_path = Null THEN <<>> ELSE r.contract_path)>> :
             r \in db.paths} |->
        (CHOOSE r \in db.paths : r.path = k[1].v).id],
   method      |-> DictOf(db.http_methods, "method")]

\* ------------------------------------------------------------------------
\* Classification engine: detect_false_positive
\* ------------------------------------------------------------------------

\* False positive rule IDs
\* The rule identifiers FP_RULE_<NAME>, as FP_RULE.<NAME>.
FP_RULE ==
  [ RATE_LIMIT |->
     <<"R","A","T","E","_","L","I","M","I","T","_","4","2","9">>,
   OAUTH_AUTH |->
     <<"O","A","U","T","H","_","A","U","T","H","_","4","0","1","_","4","0","3">>,
   VALIDATION_400 |->
     <<"V","A","L","I","D","A","T","I","O","N","_","4","0","0">>,
   NOT_FOUND_404 |->
     <<"N","O","T","_","F","O","U","N","D","_","4","0","4">>,
   IDOR_ADMIN |->
     <<"I","D","O","R","_","A","D","M","I","N">>,
   IDOR_LIST |->
     <<"I","D","O","R","_","L","I","S","T">>,
   IDOR_OPTIONAL |->
     <<"I","D","O","R","_","O","P","T","I","O","N","A","L">>,
   HTTP_METHODS |->
     <<"H","T","T","P","_","M","E","T","H","O","D","S">>,
   RESPONSE_CONTRACT |->
     <<"R","E","S","P","O","N","S","E","_","C","O","N","T","R","A","C","T">>,
   CONFLICT_409 |->
     <<"C","O","N","F","L","I","C","T","_","4","0","9">>,
   CONTENT_TYPE_GO_HTTP |->
     <<"C","O","N","T","E","N","T","_","T","Y","P","E","_","G","O","_","H","T","T","P">>,
   INJECTION_JSON_API |->
     <<"I","N","J","E","C","T","I","O","N","_","J","S","O","N","_","A","P","I">>,
   XSS_QUERY_PARAMS |->
     <<"X","S","S","_","Q","U","E","R","Y","_","P","A","R","A","M","S">>,
   HEADER_VALIDATION |->
     <<"H","E","A","D","E","R","_","V","A","L","I","D","A","T","I","O","N","_","4","0","0">>,
   LEADING_ZEROS |->
     <<"L","E","A","D","I","N","G","_","Z","E","R","O","S","_","4","0","0">>,
   CONNECTION_ERROR |->
     <<"C","O","N","N","E","C","T","I","O","N","_","E","R","R","O","R","_","9","9","9">>,
   STRING_BOUNDARY_OPTIONAL |->
     <<"S","T","R","I","N","G","_","B","O","U","N","D","A","R","Y","_","O","P","T","I","O","N","A","L">>,
   TRANSFER_ENCODING |->
     <<"T","R","A","N","S","F","E","R","_","E","N","C","O","D","I","N","G","_","5","0","1">>,
   DELETED_RESOURCE_LIST |->
     <<"D","E","L","E","T","E","D","_","R","E","S","O","U","R","C","E","_","L","I","S","T">>,
   FORM_URLENCODED_JSON_TEST |->
     <<"F","O","R","M","_","U","R","L","E","N","C","O","D","E","D","_","J","S","O","N","_","T","E","S","T">>,
   DELETE_ME_CHALLENGE |->
     <<"D","E","L","E","T","E","_","M","E","_","C","H","A","L","L","E","N","G","E">>,
   ADMIN_SETTINGS_RESERVED |->
     <<"A","D","M","I","N","_","S","E","T","T","I","N","G","S","_","R","E","S","E","R","V","E","D">>,
   PATH_PARAM_VALIDATION |->
     <<"P","A","T","H","_","P","A","R","A","M","_","V","A","L","I","D","A","T","I","O","N">>,
   EMPTY_BODY_REQUIRED |->
     <<"E","M","P","T","Y","_","B","O","D","Y","_","R","E","Q","U","I","R","E","D","_","F","I","E","L","D","S">>,
   EMPTY_PATH_PARAM |->
     <<"E","M","P","T","Y","_","P","A","T","H","_","P","A","R","A","M","_","4","0","5">>,
   EMPTY_JSON_BODY_NOT_FOUND |->
     <<"E","M","P","T","Y","_","J","S","O","N","_","B","O","D","Y","_","N","O","T","_","F","O","U","N","D">>,
   STRING_BOUNDARY_EMPTY_PATH |->
     <<"S","T","R","I","N","G","_","B","O","U","N","D","A","R","Y","_","E","M","P","T","Y","_","P","A","T","H">>,
   NO_BODY_ENDPOINT |->
     <<"N","O","_","B","O","D","Y","_","E","N","D","P","O","I","N","T">>,
   SCHEMA_MISMATCH_VALID_ERROR |->
     <<"S","C","H","E","M","A","_","M","I","S","M","A","T","C","H","_","V","A","L","I","D","_","E","R","R","O","R">>,
   SURVEY_VALIDATION_400 |->
     <<"S","U","R","V","E","Y","_","V","A","L","I","D","A","T","I","O","N","_","4","0","0">>,
   SURVEY_DELETE_CONFLICT_409 |->
     <<"S","U","R","V","E","Y","_","D","E","L","E","T","E","_","C","O","N","F","L","I","C","T","_","4","0","9">>,
   JSONPATCH_INVALID_400 |->
     <<"J","S","O","N","P","A","T","C","H","_","I","N","V","A","L","I","D","_","4","0","0">>,
   SURVEY_RESPONSE_VALIDATION_400 |->
     <<"S","U","R","V","E","Y","_","R","E","S","P","O","N","S","E","_","V","A","L","I","D","A","T","I","O","N","_","4","0","0">>,
   METADATA_BULK_VALIDATION_400 |->
     <<"M","E","T","A","D","A","T","A","_","B","U","L","K","_","V","A","L","I","D","A","T","I","O","N","_","4","0","0">>,
   METADATA_LIST_RANDOM_200 |->
     <<"M","E","T","A","D","A","T","A","_","L","I","S","T","_","R","A","N","D","O","M","_","2","0","0">>,
   SSRF_VALIDATION_400 |->
     <<"S","S","R","F","_","V","A","L","I","D","A","T","I","O","N","_","4","0","0">>,
   SURVEY_EXAMPLES_CONFLICT_409 |->
     <<"S","U","R","V","E","Y","_","E","X","A","M","P","L","E","S","_","C","O","N","F","L","I","C","T","_","4","0","9">>,
   SURVEY_METADATA_CONFLICT_409 |->
     <<"S","U","R","V","E","Y","_","M","E","T","A","D","A","T","A","_","C","O","N","F","L","I","C","T","_","4","0","9">>,
   EMPTY_ARRAY_BODY_200 |->
     <<"E","M","P","T","Y","_","A","R","R","A","Y","_","B","O","D","Y","_","2","0","0">>,
   SAML_ACS_NO_IDP |->
     <<"S","A","M","L","_","A","C","S","_","N","O","_","I","D","P">>,
   SURVEY_RESPONSE_SCHEMA_ALLOF |->
     <<"S","U","R","V","E","Y","_","R","E","S","P","O","N","S","E","_","S","C","H","E","M","A","_","A","L","L","O","F">>]

\* The rule ids the docstring of detect_false_positive lists under
\* "Rule IDs".
DocumentedRuleIds ==
  {<<"R","A","T","E","_","L","I","M","I","T","_","4","2","9">>,
   <<"O","A","U","T","H","_","A","U","T","H","_","4","0","1","_","4","0","3">>,
   <<"V","A","L","I","D","A","T","I","O","N","_","4","0","0">>,
   <<"N","O","T","_","F","O","U","N","D","_","4","0","4">>,
   <<"I","D","O","R","_","A","D","M","I","N">>,
   <<"I","D","O","R","_","L","I","S","T">>,
   <<"I","D","O","R","_","O","P","T","I","O","N","A","L">>,
   <<"H","T","T","P","_","M","E","T","H","O","D","S">>,
   <<"R","E","S","P","O","N","S","E","_","C","O","N","T","R","A","C","T">>,
   <<"C","O","N","F","L","I","C","T","_","4","0","9">>,
   <<"C","O","N","T","E","N","T","_","T","Y","P","E","_","G","O","_","H","T","T","P">>,
   <<"I","N","J","E","C","T","I","O","N","_","J","S","O","N","_","A","P","I">>,
   <<"X","S","S","_","Q","U","E","R","Y","_","P","A","R","A","M","S">>,
   <<"H","E","A","D","E","R","_","V","A","L","I","D","A","T","I","O","N","_","4","0","0">>,
   <<"L","E","A","D","I","N","G","_","Z","E","R","O","S","_","4","0","0">>,
   <<"O","N","E","O","F","_","V","A","L","I","D","A","T","I","O","N","_","4","0","0">>,
   <<"C","O","N","N","E","C","T","I","O","N","_","E","R","R","O","R","_","9","9","9">>,
   <<"S","T","R","I","N","G","_","B","O","U","N","D","A","R","Y","_","O","P","T","I","O","N","A","L">>,
   <<"T","R","A","N","S","F","E","R","_","E","N","C","O","D","I","N","G","_","5","0","1">>,
   <<"D","E","L","E","T","E","D","_","R","E","S","O","U","R","C","E","_","L","I","S","T">>,
   <<"R","E","M","O","V","E","_","F","I","E","L","D","S","_","O","N","E","O","F">>,
   <<"F","O","R","M","_","U","R","L","E","N","C","O","D","E","D","_","J","S","O","N","_","T","E","S","T">>,
   <<"D","E","L","E","T","E","_","M","E","_","C","H","A","L","L","E","N","G","E">>,
   <<"A","D","M","I","N","_","S","E","T","T","I","N","G","S","_","R","E","S","E","R","V","E","D">>,
   <<"P","A","T","H","_","P","A","R","A","M","_","V","A","L","I","D","A","T","I","O","N">>,
   <<"E","M","P","T","Y","_","B","O","D","Y","_","R","E","Q","U","I","R","E","D","_","F","I","E","L","D","S">>,
   <<"E","M","P","T","Y","_","P","A","T","H","_","P","A","R","A","M","_","4","0","5">>,
   <<"E","M","P","T","Y","_","J","S","O","N","_","B","O","D","Y","_","N","O","T","_","F","O","U","N","D">>,
   <<"S","T","R","I","N","G","_","B","O","U","N","D","A","R","Y","_","E","M","P","T","Y","_","P","A","T","H">>,
   <<"N","O","_","B","O","D","Y","_","E","N","D","P","O","I","N","T">>,
   <<"S","C","H","E","M","A","_","M","I","S","M","A","T","C","H","_","V","A","L","I","D","_","E","R","R","O","R">>,
   <<"S","U","R","V","E","Y","_","V","A","L","I","D","A","T","I","O","N","_","4","0","0">>,
   <<"S","U","R","V","E","Y","_","D","E","L","E","T","E","_","C","O","N","F","L","I","C","T","_","4","0","9">>,
   <<"J","S","O","N","P","A","T","C","H","_","I","N","V","A","L","I","D","_","4","0","0">>,
   <<"S","U","R","V","E","Y","_","R","E","S","P","O","N","S","E","_","V","A","L","I","D","A","T","I","O","N","_","4","0","0">>,
   <<"M","E","T","A","D","A","T","A","_","B","U","L","K","_","V","A","L","I","D","A","T","I","O","N","_","4","0","0">>,
   <<"M","E","T","A","D","A","T","A","_","L","I","S","T","_","R","A","N","D","O","M","_","2","0","0">>,
   <<"S","U","R","V","E","Y","_","E","X","A","M","P","L","E","S","_","C","O","N","F","L","I","C","T","_","4","0","9">>,
   <<"S","U","R","V","E","Y","_","M","E","T","A","D","A","T","A","_","C","O","N","F","L","I","C","T","_","4","0","9">>,
   <<"E","M","P","T","Y","_","A","R","R","A","Y","_","B","O","D","Y","_","2","0","0">>,
   <<"S","A","M","L","_","A","C","S","_","N","O","_","I","D","P">>,
   <<"S","U","R","V","E","Y","_","R","E","S","P","O","N","S","E","_","S","C","H","E","M","A","_","A","L","L","O","F">>}

LowerChar(c) ==
  CASE c = "A" -> "a" [] c = "B" -> "b" [] c = "C" -> "c" [] c = "D" -> "d"
    [] c = "E" -> "e" [] c = "F" -> "f" [] c = "G" -> "g" [] c = "H" -> "h"
    [] c = "I" -> "i" [] c = "J" -> "j" [] c = "K" -> "k" [] c = "L" -> "l"
    [] c = "M" -> "m" [] c = "N" -> "n" [] c = "O" -> "o" [] c = "P" -> "p"
    [] c = "Q" -> "q" [] c = "R" -> "r" [] c = "S" -> "s" [] c = "T" -> "t"
    [] c = "U" -> "u" [] c = "V" -> "v" [] c = "W" -> "w" [] c = "X" -> "x"
    [] c = "Y" -> "y" [] c = "Z" -> "z" [] OTHER -> c

\* s.lower()
Lower(s) == [k \in 1..Len(s) |-> LowerChar(s[k])]

s_error == <<"e","r","r","o","r">>
s_warn == <<"w","a","r","n">>

\* Outcomes of detect_false_positive: a pair (is_fp, rule), or an exception.
\* Variant: a classifier that drops the rule id.  C2 does not survive it.
FpReturnWithoutRule(is_fp, rule) == [raised |-> FALSE, is_fp |-> is_fp, rule |-> JNull]
FpReturn(is_fp, rule) == [raised |-> FALSE, is_fp |-> is_fp, rule |-> rule]
FpRaise == [raised |-> TRUE, is_fp |-> FALSE, rule |-> JNull]

\* What one rule does with a record: it returns (True, rule), it raises, or
\* control passes to the rule below it.
Hit(rule) == [out |-> "hit",   rule |-> rule]
Err       == [out |-> "raise", rule |-> <<>>]
Pass      == [out |-> "pass",  rule |-> <<>>]

\* (x or '').lower() succeeds: x or '' is a str
LowerOk(x) == Or(x, JStr(<<>>)).kind = "str"
LowerOf(x) == Lower(Or(x, JStr(<<>>)).v)

\* x in [..] / x in (..) for a list or tuple of str literals
StrIn(x, literals) == x.kind = "str" /\ x.v \in literals

\* any(p in text for p in patterns), text a str
AnyIn(patterns, text) == \E p \in patterns : Contains(text, p)

\* The text of the dict keys p in x is compared with, when x is a dict.
KeyText ==
  [testId |-> <<"t","e","s","t","I","d">>, traceId |-> <<"t","r","a","c","e","I","d">>, scenario |-> <<"s","c","e","n","a","r","i","o">>,
   expectedResult |-> <<"e","x","p","e","c","t","e","d","R","e","s","u","l","t">>, result |-> <<"r","e","s","u","l","t">>,
   fuzzer |-> <<"f","u","z","z","e","r">>, path |-> <<"p","a","t","h">>, server |-> <<"s","e","r","v","e","r">>,
   request |-> <<"r","e","q","u","e","s","t">>, response |-> <<"r","e","s","p","o","n","s","e">>,
   contractPath |-> <<"c","o","n","t","r","a","c","t","P","a","t","h">>, resultReason |-> <<"r","e","s","u","l","t","R","e","a","s","o","n">>,
   resultDetails |-> <<"r","e","s","u","l","t","D","e","t","a","i","l","s">>, httpMethod |-> <<"h","t","t","p","M","e","t","h","o","d">>,
   url |-> <<"u","r","l">>, timestamp |-> <<"t","i","m","e","s","t","a","m","p">>, headers |-> <<"h","e","a","d","e","r","s">>,
   key |-> <<"k","e","y">>, value |-> <<"v","a","l","u","e">>, responseCode |-> <<"r","e","s","p","o","n","s","e","C","o","d","e">>,
   responseTimeInMs |-> <<"r","e","s","p","o","n","s","e","T","i","m","e","I","n","M","s">>,
   responseContentType |-> <<"r","e","s","p","o","n","s","e","C","o","n","t","e","n","t","T","y","p","e">>,
   responseBody |-> <<"r","e","s","p","o","n","s","e","B","o","d","y">>, jsonBody |-> <<"j","s","o","n","B","o","d","y">>,
   error |-> <<"e","r","r","o","r">>, error_description |-> <<"e","r","r","o","r","_","d","e","s","c","r","i","p","t","i","o","n">>,
   notAJson |-> <<"n","o","t","A","J","s","o","n">>, id |-> <<"i","d">>, survey_id |-> <<"s","u","r","v","e","y","_","i","d">>]

\* p in x, p a str literal: a substring test on a str, an element test on a
\* list, a key test on a dict; TypeError on None and int.
PyInOk(x) == x.kind \in {"str", "list", "dict"}
PyIn(p, x) ==
  CASE x.kind = "str"  -> Contains(x.v, p)
    [] x.kind = "list" -> \E k \in 1..Len(x.v) : x.v[k] = JStr(p)
    [] x.kind = "dict" -> \E k \in DOMAIN x.v : KeyText[k] = p

\* Lines 577-582: the values every rule reads.
response_of(data)    == Get(data, "response", JDict(EmptyDict))
response_code(data)  == Get(response_of(data), "responseCode", JInt(0))
result_reason(data)  == LowerOf(Get(data, "resultReason", JNull))
result_details(data) == LowerOf(Get(data, "resultDetails", JNull))
result_lower(data)   == Lower(Get(data, "result", JStr(<<>>)).v)
fuzzer_of(data)      == Get(data, "fuzzer", JStr(<<>>))
scenario_lower(data) == LowerOf(Get(data, "scenario", JNull))

\* Lines 577-582 raise: .get on a response that is not a dict, .lower() on
\* a value that is not a str.
PreambleRaises(data) ==
  \/ response_of(data).kind # "dict"
  \/ ~LowerOk(Get(data, "resultReason", JNull))
  \/ ~LowerOk(Get(data, "resultDetails", JNull))
  \/ Get(data, "result", JStr(<<>>)).kind # "str"
  \/ ~LowerOk(Get(data, "scenario", JNull))

\* path = data.get('path', '')
path_of(data) == Get(data, "path", JStr(<<>>))

\* request_method = data.get('request', {}).get('httpMethod', ''): raises
\* when request is not a dict
request_of(data)     == Get(data, "request", JDict(EmptyDict))
RequestIsDict(data)      == request_of(data).kind = "dict"
request_method(data) == Get(request_of(data), "httpMethod", JStr(<<>>))

\* url = data.get('request', {}).get('url', '')
url_of(data) == Get(request_of(data), "url", JStr(<<>>))

\* response_body = (data.get('response', {}).get('responseBody') or '').lower()
ResponseBodyOk(data) == LowerOk(Get(response_of(data), "responseBody", JNull))
response_body(data)  == LowerOf(Get(response_of(data), "responseBody", JNull))

\* json_body = data.get('response', {}).get('jsonBody') or {}
json_body(data) == Or(Get(response_of(data), "jsonBody", JNull), JDict(EmptyDict))

\* error_desc = (json_body.get('error_description') or '').lower()
ErrorDescOk(data) ==
  /\ json_body(data).kind = "dict"
  /\ LowerOk(Get(json_body(data), "error_description", JNull))
error_desc(data) == LowerOf(Get(json_body(data), "error_description", JNull))

\* url.endswith('/') or '//' in url, url a str
EmptyPathSegment(url) ==
  \/ url # <<>> /\ url[Len(url)] = "/"
  \/ Contains(url, <<"/","/">>)

\* Variant: no rate-limit rule.  C12 does not survive it.
RuleRateLimitOff(data) == Pass

\* 1. Rate limit (429)
RuleRateLimit(data) ==
  IF response_code(data) = JInt(429) THEN Hit(FP_RULE.RATE_LIMIT) ELSE Pass

\* 2. OAuth/auth (401/403)
RuleOAuthAuth(data) ==
  LET oauth_keywords == {<<"u","n","a","u","t","h","o","r","i","z","e","d">>, <<"f","o","r","b","i","d","d","e","n">>, <<"i","n","v","a","l","i","d","t","o","k","e","n">>, <<"i","n","v","a","l","i","d","g","r","a","n","t">>,
       <<"a","u","t","h","e","n","t","i","c","a","t","i","o","n","f","a","i","l","e","d">>, <<"a","u","t","h","e","n","t","i","c","a","t","i","o","n","e","r","r","o","r">>, <<"a","u","t","h","o","r","i","z","a","t","i","o","n","e","r","r","o","r">>,
       <<"i","n","v","a","l","i","d","_","t","o","k","e","n">>, <<"i","n","v","a","l","i","d","_","g","r","a","n","t">>, <<"a","c","c","e","s","s","_","d","e","n","i","e","d">>,
       <<"u","n","e","x","p","e","c","t","e","d"," ","r","e","s","p","o","n","s","e"," ","c","o","d","e",":"," ","4","0","1">>, <<"u","n","e","x","p","e","c","t","e","d"," ","r","e","s","p","o","n","s","e"," ","c","o","d","e",":"," ","4","0","3">>}
  IN
  IF /\ response_code(data) \in {JInt(401), JInt(403)}
     /\ AnyIn(oauth_keywords,
              result_reason(data) \o << " " >> \o result_details(data))
  THEN Hit(FP_RULE.OAUTH_AUTH) ELSE Pass

\* 3. Validation (400)
RuleValidation400(data) ==
  LET validation_patterns == {<<"i","n","j","e","c","t","i","o","n">>, <<"o","v","e","r","f","l","o","w">>, <<"c","h","a","r","s">>, <<"u","n","i","c","o","d","e">>, <<"m","a","l","f","o","r","m","e","d">>, <<"h","a","n","g","u","l">>,
       <<"z","a","l","g","o">>, <<"b","i","d","i","r","e","c","t","i","o","n","a","l">>, <<"f","u","l","l","w","i","d","t","h">>, <<"a","b","u","g","i","d","a">>}
  IN
  LET validation_fuzzers == {<<"Z","e","r","o","W","i","d","t","h","C","h","a","r","s","I","n","V","a","l","u","e","s","F","i","e","l","d","s">>, <<"Z","e","r","o","W","i","d","t","h","C","h","a","r","s","I","n","N","a","m","e","s","F","i","e","l","d","s">>,
       <<"H","a","n","g","u","l","C","h","a","r","s","I","n","S","t","r","i","n","g","F","i","e","l","d","s">>, <<"A","r","a","b","i","c","C","h","a","r","s","I","n","S","t","r","i","n","g","F","i","e","l","d","s">>,
       <<"H","a","n","g","u","l","F","i","l","l","e","r","F","i","e","l","d","s">>, <<"B","i","d","i","r","e","c","t","i","o","n","a","l","O","v","e","r","r","i","d","e","F","i","e","l","d","s">>, <<"Z","a","l","g","o","T","e","x","t","I","n","F","i","e","l","d","s">>,
       <<"A","b","u","g","i","d","a","s","I","n","S","t","r","i","n","g","F","i","e","l","d","s">>, <<"F","u","l","l","w","i","d","t","h","B","r","a","c","k","e","t","s","F","i","e","l","d","s">>,
       <<"S","p","e","c","i","a","l","C","h","a","r","s","I","n","S","t","r","i","n","g","F","i","e","l","d","s">>, <<"C","o","n","t","r","o","l","C","h","a","r","s","I","n","S","t","r","i","n","g","F","i","e","l","d","s">>,
       <<"E","m","o","j","i","s","I","n","S","t","r","i","n","g","F","i","e","l","d","s">>, <<"T","r","a","i","l","i","n","g","S","p","a","c","e","s","I","n","F","i","e","l","d","s">>,
       <<"L","e","a","d","i","n","g","S","p","a","c","e","s","I","n","F","i","e","l","d","s">>, <<"O","v","e","r","f","l","o","w","A","r","r","a","y","S","i","z","e","F","i","e","l","d","s">>,
       <<"E","x","t","r","e","m","e","N","e","g","a","t","i","v","e","N","u","m","b","e","r","s","I","n","N","u","m","e","r","i","c","F","i","e","l","d","s">>,
       <<"E","x","t","r","e","m","e","P","o","s","i","t","i","v","e","N","u","m","b","e","r","s","I","n","N","u","m","e","r","i","c","F","i","e","l","d","s">>,
       <<"V","e","r","y","L","a","r","g","e","S","t","r","i","n","g","s">>, <<"V","e","r","y","L","a","r","g","e","U","n","i","c","o","d","e","S","t","r","i","n","g","s">>, <<"M","a","l","f","o","r","m","e","d","J","s","o","n">>,
       <<"D","u","p","l","i","c","a","t","e","K","e","y","s","F","i","e","l","d","s">>, <<"I","n","v","a","l","i","d","J","s","o","n","I","n","R","e","q","u","e","s","t","B","o","d","y">>,
       <<"N","u","l","l","V","a","l","u","e","s","I","n","F","i","e","l","d","s">>, <<"E","m","p","t","y","S","t","r","i","n","g","s","I","n","F","i","e","l","d","s">>,
       <<"S","Q","L","I","n","j","e","c","t","i","o","n">>, <<"X","S","S","I","n","j","e","c","t","i","o","n">>, <<"P","a","t","h","T","r","a","v","e","r","s","a","l">>}
  IN
  IF response_code(data) # JInt(400) THEN Pass
  ELSE IF StrIn(fuzzer_of(data), validation_fuzzers)
       THEN Hit(FP_RULE.VALIDATION_400)
  ELSE IF fuzzer_of(data).kind # "str" THEN Err          \* fuzzer.lower()
  ELSE IF AnyIn(validation_patterns, Lower(fuzzer_of(data).v))
       THEN Hit(FP_RULE.VALIDATION_400)
  ELSE Pass

\* 4. Not found (404)
RuleNotFound404(data) ==
  LET legitimate_not_found_messages ==
        {<<"n","o","t"," ","f","o","u","n","d">>, <<"a","d","d","-","o","n"," ","n","o","t"," ","f","o","u","n","d">>, <<"i","n","v","o","c","a","t","i","o","n"," ","n","o","t"," ","f","o","u","n","d">>,
        <<"u","s","e","r"," ","n","o","t"," ","f","o","u","n","d">>, <<"g","r","o","u","p"," ","n","o","t"," ","f","o","u","n","d">>, <<"w","e","b","h","o","o","k"," ","n","o","t"," ","f","o","u","n","d">>,
        <<"t","h","r","e","a","t"," ","m","o","d","e","l"," ","n","o","t"," ","f","o","u","n","d">>, <<"d","i","a","g","r","a","m"," ","n","o","t"," ","f","o","u","n","d">>, <<"d","o","c","u","m","e","n","t"," ","n","o","t"," ","f","o","u","n","d">>,
        <<"t","h","r","e","a","t"," ","n","o","t"," ","f","o","u","n","d">>, <<"n","o","t"," ","d","e","f","i","n","e","d"," ","i","n"," ","t","h","e"," ","a","p","i"," ","s","p","e","c","i","f","i","c","a","t","i","o","n">>}
      not_found_fuzzers == {<<"R","a","n","d","o","m","R","e","s","o","u","r","c","e","s","F","u","z","z","e","r">>, <<"I","n","s","e","c","u","r","e","D","i","r","e","c","t","O","b","j","e","c","t","R","e","f","e","r","e","n","c","e","s">>,
       <<"R","a","n","d","o","m","F","o","r","e","i","g","n","K","e","y","R","e","f","e","r","e","n","c","e">>, <<"N","o","n","E","x","i","s","t","e","n","t","R","e","s","o","u","r","c","e">>, <<"R","a","n","d","o","m","R","e","s","o","u","r","c","e","s">>,
       <<"A","c","c","e","p","t","L","a","n","g","u","a","g","e","H","e","a","d","e","r","s">>, <<"C","h","e","c","k","S","e","c","u","r","i","t","y","H","e","a","d","e","r","s">>, <<"D","u","p","l","i","c","a","t","e","H","e","a","d","e","r","s">>,
       <<"E","x","t","r","a","H","e","a","d","e","r","s">>, <<"H","a","p","p","y","P","a","t","h">>, <<"L","a","r","g","e","N","u","m","b","e","r","O","f","R","a","n","d","o","m","A","l","p","h","a","n","u","m","e","r","i","c","H","e","a","d","e","r","s">>,
       <<"N","e","w","F","i","e","l","d","s">>, <<"I","n","v","a","l","i","d","R","e","f","e","r","e","n","c","e","s","F","i","e","l","d","s">>, <<"Z","e","r","o","W","i","d","t","h","C","h","a","r","s","I","n","V","a","l","u","e","s","F","i","e","l","d","s">>,
       <<"H","a","n","g","u","l","F","i","l","l","e","r","F","i","e","l","d","s">>, <<"A","b","u","g","i","d","a","s","I","n","S","t","r","i","n","g","F","i","e","l","d","s">>,
       <<"F","u","l","l","w","i","d","t","h","B","r","a","c","k","e","t","s","F","i","e","l","d","s">>, <<"I","t","e","r","a","t","e","T","h","r","o","u","g","h","E","n","u","m","V","a","l","u","e","s","F","i","e","l","d","s">>,
       <<"R","e","m","o","v","e","F","i","e","l","d","s">>, <<"D","e","f","a","u","l","t","V","a","l","u","e","s","I","n","F","i","e","l","d","s">>,
       <<"E","x","t","r","e","m","e","P","o","s","i","t","i","v","e","N","u","m","b","e","r","s","I","n","I","n","t","e","g","e","r","F","i","e","l","d","s">>,
       <<"E","x","t","r","e","m","e","N","e","g","a","t","i","v","e","N","u","m","b","e","r","s","I","n","I","n","t","e","g","e","r","F","i","e","l","d","s">>, <<"I","n","t","e","g","e","r","F","i","e","l","d","s","R","i","g","h","t","B","o","u","n","d","a","r","y">>,
       <<"L","e","a","d","i","n","g","S","p","a","c","e","s","I","n","H","e","a","d","e","r","s">>, <<"M","a","x","L","e","n","g","t","h","E","x","a","c","t","V","a","l","u","e","s","I","n","S","t","r","i","n","g","F","i","e","l","d","s">>,
       <<"T","r","a","i","l","i","n","g","S","p","a","c","e","s","I","n","H","e","a","d","e","r","s">>, <<"E","m","p","t","y","S","t","r","i","n","g","s","I","n","F","i","e","l","d","s">>, <<"E","x","a","m","p","l","e","s","F","i","e","l","d","s">>,
       <<"M","a","x","i","m","u","m","E","x","a","c","t","N","u","m","b","e","r","s","I","n","N","u","m","e","r","i","c","F","i","e","l","d","s">>,
       <<"M","i","n","L","e","n","g","t","h","E","x","a","c","t","V","a","l","u","e","s","I","n","S","t","r","i","n","g","F","i","e","l","d","s">>,
       <<"M","i","n","i","m","u","m","E","x","a","c","t","N","u","m","b","e","r","s","I","n","N","u","m","e","r","i","c","F","i","e","l","d","s">>, <<"N","u","l","l","V","a","l","u","e","s","I","n","F","i","e","l","d","s">>,
       <<"R","e","m","o","v","e","H","e","a","d","e","r","s">>, <<"S","t","r","i","n","g","F","i","e","l","d","s","L","e","f","t","B","o","u","n","d","a","r","y">>,
       <<"S","t","r","i","n","g","F","i","e","l","d","s","R","i","g","h","t","B","o","u","n","d","a","r","y">>, <<"V","e","r","y","L","a","r","g","e","S","t","r","i","n","g","s","I","n","F","i","e","l","d","s">>}
  IN
  IF response_code(data) # JInt(404) THEN Pass
  ELSE IF StrIn(fuzzer_of(data), not_found_fuzzers)
       THEN Hit(FP_RULE.NOT_FOUND_404)
  ELSE IF Contains(result_reason(data), <<"u","n","e","x","p","e","c","t","e","d"," ","r","e","s","p","o","n","s","e"," ","c","o","d","e",":"," ","4","0","4">>)
       THEN Hit(FP_RULE.NOT_FOUND_404)
  ELSE IF ~ResponseBodyOk(data) THEN Err
  ELSE IF AnyIn(legitimate_not_found_messages, response_body(data))
       THEN Hit(FP_RULE.NOT_FOUND_404)
  ELSE IF AnyIn(legitimate_not_found_messages, result_details(data))
       THEN Hit(FP_RULE.NOT_FOUND_404)
  ELSE Pass

\* 4b. InsecureDirectObjectReferences on admin-only and list endpoints
RuleIdor(data) ==
  LET list_endpoints == {<<"/","a","d","d","o","n","s">>, <<"/","i","n","v","o","c","a","t","i","o","n","s">>, <<"/","w","e","b","h","o","o","k","s">>, <<"/","t","h","r","e","a","t","_","m","o","d","e","l","s">>,
       <<"/","w","e","b","h","o","o","k","s","/","s","u","b","s","c","r","i","p","t","i","o","n","s">>}
  IN
  IF fuzzer_of(data) # JStr(<<"I","n","s","e","c","u","r","e","D","i","r","e","c","t","O","b","j","e","c","t","R","e","f","e","r","e","n","c","e","s">>) THEN Pass
  ELSE IF ~RequestIsDict(data) THEN Err
  ELSE IF path_of(data).kind # "str" THEN Err            \* path.startswith
  ELSE IF StartsWith(path_of(data).v, <<"/","a","d","m","i","n","/">>) THEN Hit(FP_RULE.IDOR_ADMIN)
  ELSE IF /\ StartsWith(path_of(data).v, <<"/","a","d","d","o","n","s","/">>)
          /\ request_method(data) = JStr(<<"D","E","L","E","T","E">>)
       THEN Hit(FP_RULE.IDOR_ADMIN)
  ELSE IF /\ response_code(data) = JInt(200)
          /\ request_method(data) = JStr(<<"G","E","T">>)
          /\ \/ \E ep \in list_endpoints :
                  \/ path_of(data).v = ep
                  \/ StartsWith(path_of(data).v, ep \o <<"?">>)
                  \/ StartsWith(path_of(data).v, ep \o <<"/">>)
             \/ Contains(Lower(path_of(data).v), <<"l","i","s","t">>)
       THEN Hit(FP_RULE.IDOR_LIST)
  ELSE IF /\ response_code(data) \in {JInt(200), JInt(201), JInt(204)}
          /\ request_method(data) \in {JStr(<<"P","O","S","T">>), JStr(<<"P","U","T">>)}
          /\ AnyIn({<<"t","h","r","e","a","t","_","m","o","d","e","l","_","i","d">>, <<"w","e","b","h","o","o","k","_","i","d">>, <<"a","d","d","o","n","_","i","d">>},
                   scenario_lower(data))
       THEN Hit(FP_RULE.IDOR_OPTIONAL)
  ELSE Pass

\* 5. HTTP methods
RuleHttpMethods(data) ==
  IF /\ StrIn(fuzzer_of(data),
              {<<"H","t","t","p","M","e","t","h","o","d","s">>, <<"N","o","n","R","e","s","t","H","t","t","p","M","e","t","h","o","d","s">>, <<"C","u","s","t","o","m","H","t","t","p","M","e","t","h","o","d","s">>})
     /\ response_code(data) \in {JInt(400), JInt(405)}
  THEN Hit(FP_RULE.HTTP_METHODS) ELSE Pass

\* 6. Response contract
RuleResponseContract(data) ==
  LET contract_fuzzers == {<<"R","e","s","p","o","n","s","e","H","e","a","d","e","r","s","M","a","t","c","h","C","o","n","t","r","a","c","t","H","e","a","d","e","r","s">>, <<"R","e","s","p","o","n","s","e","C","o","n","t","e","n","t","T","y","p","e","M","a","t","c","h","e","s","C","o","n","t","r","a","c","t">>}
  IN
  IF StrIn(fuzzer_of(data), contract_fuzzers)
  THEN Hit(FP_RULE.RESPONSE_CONTRACT) ELSE Pass

\* 7. 409 Conflict on POST /admin/groups
RuleConflict409(data) ==
  IF response_code(data) # JInt(409) THEN Pass
  ELSE IF ~RequestIsDict(data) THEN Err
  ELSE IF /\ path_of(data) = JStr(<<"/","a","d","m","i","n","/","g","r","o","u","p","s">>)
          /\ request_method(data) = JStr(<<"P","O","S","T">>)
       THEN Hit(FP_RULE.CONFLICT_409)
  ELSE Pass

\* response_content_type = data.get('response', {}).get('responseContentType', '')
response_content_type(data) ==
  Get(response_of(data), "responseContentType", JStr(<<>>))

\* 8. Non-JSON content type from the Go HTTP layer
RuleContentTypeGoHttp(data) ==
  IF ~(\/ Contains(result_reason(data), <<"c","o","n","t","e","n","t"," ","t","y","p","e"," ","n","o","t"," ","m","a","t","c","h","i","n","g">>)
       \/ Contains(result_details(data), <<"c","o","n","t","e","n","t"," ","t","y","p","e"," ","n","o","t"," ","m","a","t","c","h","i","n","g">>))
  THEN Pass
  ELSE IF response_content_type(data).kind # "str" THEN Err   \* .startswith
  ELSE IF /\ StartsWith(response_content_type(data).v, <<"t","e","x","t","/","p","l","a","i","n">>)
          /\ response_code(data) = JInt(400)
       THEN Hit(FP_RULE.CONTENT_TYPE_GO_HTTP)
  ELSE Pass

\* 9. Injection findings on a JSON API
RuleInjectionJsonApi(data) ==
  LET injection_fuzzers == {<<"X","s","s","I","n","j","e","c","t","i","o","n","I","n","S","t","r","i","n","g","F","i","e","l","d","s">>, <<"N","o","S","q","l","I","n","j","e","c","t","i","o","n","I","n","S","t","r","i","n","g","F","i","e","l","d","s">>,
       <<"C","o","m","m","a","n","d","I","n","j","e","c","t","i","o","n","I","n","S","t","r","i","n","g","F","i","e","l","d","s">>, <<"S","q","l","I","n","j","e","c","t","i","o","n","I","n","S","t","r","i","n","g","F","i","e","l","d","s">>}
  IN
  IF ~StrIn(fuzzer_of(data), injection_fuzzers) THEN Pass
  ELSE IF \/ Contains(Lower(result_reason(data)), <<"r","e","f","l","e","c","t","e","d">>)
          \/ Contains(Lower(result_reason(data)), <<"p","o","t","e","n","t","i","a","l">>)
       THEN Hit(FP_RULE.INJECTION_JSON_API)
  ELSE IF /\ fuzzer_of(data) = JStr(<<"N","o","S","q","l","I","n","j","e","c","t","i","o","n","I","n","S","t","r","i","n","g","F","i","e","l","d","s">>)
          /\ \/ Contains(Lower(result_reason(data)), <<"d","e","t","e","c","t","e","d">>)
             \/ Contains(Lower(result_reason(data)), <<"v","u","l","n","e","r","a","b","i","l","i","t","y">>)
       THEN Hit(FP_RULE.INJECTION_JSON_API)
  ELSE Pass

\* 9b. XSS on query parameters
RuleXssQueryParams(data) ==
  IF fuzzer_of(data) # JStr(<<"X","s","s","I","n","j","e","c","t","i","o","n","I","n","S","t","r","i","n","g","F","i","e","l","d","s">>) THEN Pass
  ELSE IF ~RequestIsDict(data) THEN Err
  ELSE IF request_method(data) = JStr(<<"G","E","T">>) THEN Hit(FP_RULE.XSS_QUERY_PARAMS)
  ELSE IF result_lower(data) = <<"w","a","r","n">> THEN Hit(FP_RULE.XSS_QUERY_PARAMS)
  ELSE Pass

\* 10. Header validation
RuleHeaderValidation(data) ==
  LET header_validation_fuzzers == {<<"A","c","c","e","p","t","L","a","n","g","u","a","g","e","H","e","a","d","e","r","s">>, <<"U","n","s","u","p","p","o","r","t","e","d","C","o","n","t","e","n","t","T","y","p","e","s","H","e","a","d","e","r","s">>,
       <<"D","u","m","m","y","C","o","n","t","e","n","t","L","e","n","g","t","h","H","e","a","d","e","r","s">>, <<"L","a","r","g","e","N","u","m","b","e","r","O","f","R","a","n","d","o","m","A","l","p","h","a","n","u","m","e","r","i","c","H","e","a","d","e","r","s">>,
       <<"D","u","p","l","i","c","a","t","e","H","e","a","d","e","r","s">>, <<"E","x","t","r","a","H","e","a","d","e","r","s">>}
  IN
  IF /\ StrIn(fuzzer_of(data), header_validation_fuzzers)
     /\ response_code(data) = JInt(400)
  THEN Hit(FP_RULE.HEADER_VALIDATION) ELSE Pass

\* 13. PrefixNumbersWithZeroFields
RuleLeadingZeros(data) ==
  IF /\ fuzzer_of(data) = JStr(<<"P","r","e","f","i","x","N","u","m","b","e","r","s","W","i","t","h","Z","e","r","o","F","i","e","l","d","s">>)
     /\ response_code(data) = JInt(400)
  THEN Hit(FP_RULE.LEADING_ZEROS) ELSE Pass

\* 15. Connection errors (response code 999)
RuleConnectionError(data) ==
  IF response_code(data) = JInt(999) THEN Hit(FP_RULE.CONNECTION_ERROR) ELSE Pass

\* 16. StringFieldsLeftBoundary on optional fields
RuleStringBoundaryOptional(data) ==
  IF /\ fuzzer_of(data) = JStr(<<"S","t","r","i","n","g","F","i","e","l","d","s","L","e","f","t","B","o","u","n","d","a","r","y">>)
     /\ response_code(data) \in {JInt(200), JInt(201), JInt(204)}
     /\ \/ Contains(Lower(scenario_lower(data)), <<"i","s"," ","r","e","q","u","i","r","e","d"," ","[","F","A","L","S","E","]">>)
        \/ Contains(scenario_lower(data), <<"i","s"," ","r","e","q","u","i","r","e","d"," ","[","f","a","l","s","e","]">>)
  THEN Hit(FP_RULE.STRING_BOUNDARY_OPTIONAL) ELSE Pass

\* 12. Transfer encoding (501)
RuleTransferEncoding(data) ==
  IF response_code(data) # JInt(501) THEN Pass
  ELSE IF fuzzer_of(data) = JStr(<<"D","u","m","m","y","T","r","a","n","s","f","e","r","E","n","c","o","d","i","n","g","H","e","a","d","e","r","s">>)
       THEN Hit(FP_RULE.TRANSFER_ENCODING)
  ELSE IF ~ResponseBodyOk(data) THEN Err
  ELSE IF Contains(response_body(data), <<"u","n","s","u","p","p","o","r","t","e","d"," ","t","r","a","n","s","f","e","r"," ","e","n","c","o","d","i","n","g">>)
       THEN Hit(FP_RULE.TRANSFER_ENCODING)
  ELSE IF Contains(Lower(result_reason(data)), <<"t","r","a","n","s","f","e","r"," ","e","n","c","o","d","i","n","g">>)
       THEN Hit(FP_RULE.TRANSFER_ENCODING)
  ELSE Pass

\* pattern.rstrip('/')
RECURSIVE RStripSlash(_)
RStripSlash(s) ==
  IF s # <<>> /\ s[Len(s)] = "/" THEN RStripSlash(SubSeq(s, 1, Len(s) - 1)) ELSE s

\* 17. CheckDeletedResourcesNotAvailable on list endpoints
RuleDeletedResourceList(data) ==
  LET list_patterns == {<<"/","m","e","/","c","l","i","e","n","t","_","c","r","e","d","e","n","t","i","a","l","s">>, <<"/","a","d","m","i","n","/","q","u","o","t","a","s","/","u","s","e","r","s","/">>,
       <<"/","a","d","m","i","n","/","q","u","o","t","a","s","/","a","d","d","o","n","s","/">>, <<"/","a","d","m","i","n","/","q","u","o","t","a","s","/","w","e","b","h","o","o","k","s","/">>}
  IN
  IF fuzzer_of(data) # JStr(<<"C","h","e","c","k","D","e","l","e","t","e","d","R","e","s","o","u","r","c","e","s","N","o","t","A","v","a","i","l","a","b","l","e">>) THEN Pass
  ELSE IF path_of(data).kind # "str" THEN Err            \* path.startswith
  ELSE IF \E pattern \in list_patterns :
            \/ StartsWith(path_of(data).v, pattern)
            \/ path_of(data).v = RStripSlash(pattern)
       THEN Hit(FP_RULE.DELETED_RESOURCE_LIST)
  ELSE Pass

\* request_headers = data.get('request', {}).get('headers') or []
request_headers(data) == Or(Get(request_of(data), "headers", JNull), JList(<<>>))

\* The loop of lines 926-929 from entry k on: the content type it finds
\* ('' when no entry has the key), or an exception (an entry that is not a
\* dict, a key or the found value that is not a str).
RECURSIVE ContentTypeFrom(_, _)
ContentTypeFrom(hs, k) ==
  IF k > Len(hs) THEN [raised |-> FALSE, v |-> <<>>]
  ELSE IF hs[k].kind # "dict" THEN [raised |-> TRUE, v |-> <<>>]
  ELSE IF Get(hs[k], "key", JStr(<<>>)).kind # "str"
       THEN [raised |-> TRUE, v |-> <<>>]
  ELSE IF Lower(Get(hs[k], "key", JStr(<<>>)).v) = <<"c","o","n","t","e","n","t","-","t","y","p","e">>
       THEN IF Get(hs[k], "value", JStr(<<>>)).kind # "str"
            THEN [raised |-> TRUE, v |-> <<>>]
            ELSE [raised |-> FALSE, v |-> Lower(Get(hs[k], "value", JStr(<<>>)).v)]
  ELSE ContentTypeFrom(hs, k + 1)

\* 19. JSON validation fuzzers on form-urlencoded endpoints
RuleFormUrlencodedJsonTest(data) ==
  LET json_validation_fuzzers == {<<"M","a","l","f","o","r","m","e","d","J","s","o","n">>, <<"D","u","p","l","i","c","a","t","e","K","e","y","s","F","i","e","l","d","s">>, <<"R","a","n","d","o","m","D","u","m","m","y","I","n","v","a","l","i","d","J","s","o","n","B","o","d","y">>}
  IN
  IF ~StrIn(fuzzer_of(data), json_validation_fuzzers) THEN Pass
  ELSE IF ~RequestIsDict(data) THEN Err
  ELSE IF request_headers(data).kind # "list" THEN Err    \* for h in ...: h.get
  ELSE IF ContentTypeFrom(request_headers(data).v, 1).raised THEN Err
  ELSE IF Contains(ContentTypeFrom(request_headers(data).v, 1).v,
                   <<"a","p","p","l","i","c","a","t","i","o","n","/","x","-","w","w","w","-","f","o","r","m","-","u","r","l","e","n","c","o","d","e","d">>)
       THEN Hit(FP_RULE.FORM_URLENCODED_JSON_TEST)
  ELSE Pass

\* 20. DELETE /me two-step challenge
RuleDeleteMeChallenge(data) ==
  IF response_code(data) # JInt(400) THEN Pass
  ELSE IF ~RequestIsDict(data) THEN Err
  ELSE IF /\ path_of(data) = JStr(<<"/","m","e">>)
          /\ request_method(data) = JStr(<<"D","E","L","E","T","E">>)
       THEN Hit(FP_RULE.DELETE_ME_CHALLENGE)
  ELSE Pass

\* 21. Admin settings reserved keys
RuleAdminSettingsReserved(data) ==
  IF response_code(data) # JInt(400) THEN Pass
  ELSE IF ~ResponseBodyOk(data) THEN Err
  ELSE IF path_of(data).kind # "str" THEN Err            \* path.startswith
  ELSE IF /\ StartsWith(path_of(data).v, <<"/","a","d","m","i","n","/","s","e","t","t","i","n","g","s","/">>)
          /\ \/ Contains(response_body(data), <<"r","e","s","e","r","v","e","d">>)
             \/ Contains(result_details(data), <<"r","e","s","e","r","v","e","d">>)
       THEN Hit(FP_RULE.ADMIN_SETTINGS_RESERVED)
  ELSE Pass

\* 22. Path parameter validation errors
RulePathParamValidation(data) ==
  IF response_code(data) # JInt(400) THEN Pass
  ELSE IF ~ErrorDescOk(data) THEN Err
  ELSE IF /\ Contains(error_desc(data), <<"o","p","e","n","a","p","i","3","f","i","l","t","e","r",".","r","e","q","u","e","s","t","e","r","r","o","r",":"," ","p","a","r","a","m","e","t","e","r">>)
          /\ Contains(error_desc(data), <<"d","o","e","s","n","'","t"," ","m","a","t","c","h"," ","t","h","e"," ","r","e","g","u","l","a","r"," ","e","x","p","r","e","s","s","i","o","n">>)
       THEN Hit(FP_RULE.PATH_PARAM_VALIDATION)
  ELSE IF ~ResponseBodyOk(data) THEN Err
  ELSE IF /\ Contains(response_body(data), <<"p","a","r","a","m","e","t","e","r">>)
          /\ Contains(response_body(data), <<"d","o","e","s","n","'","t"," ","m","a","t","c","h"," ","t","h","e"," ","r","e","g","u","l","a","r"," ","e","x","p","r","e","s","s","i","o","n">>)
       THEN Hit(FP_RULE.PATH_PARAM_VALIDATION)
  ELSE Pass

\* 23. EmptyJsonBody with missing required fields
RuleEmptyBodyRequired(data) ==
  IF ~(/\ fuzzer_of(data) = JStr(<<"E","m","p","t","y","J","s","o","n","B","o","d","y">>)
       /\ response_code(data) = JInt(400))
  THEN Pass
  ELSE IF ~ErrorDescOk(data) THEN Err
  ELSE IF \/ /\ Contains(error_desc(data), <<"p","r","o","p","e","r","t","y">>)
             /\ Contains(error_desc(data), <<"i","s"," ","m","i","s","s","i","n","g">>)
          \/ Contains(error_desc(data), <<"i","s"," ","r","e","q","u","i","r","e","d">>)
       THEN Hit(FP_RULE.EMPTY_BODY_REQUIRED)
  ELSE IF ~ResponseBodyOk(data) THEN Err
  ELSE IF \/ /\ Contains(response_body(data), <<"p","r","o","p","e","r","t","y">>)
             /\ Contains(response_body(data), <<"i","s"," ","m","i","s","s","i","n","g">>)
          \/ Contains(response_body(data), <<"i","s"," ","r","e","q","u","i","r","e","d">>)
       THEN Hit(FP_RULE.EMPTY_BODY_REQUIRED)
  ELSE Pass

\* 24. Empty path parameter causing 405
RuleEmptyPathParam(data) ==
  IF ~(/\ fuzzer_of(data) = JStr(<<"R","a","n","d","o","m","R","e","s","o","u","r","c","e","s">>)
       /\ response_code(data) = JInt(405))
  THEN Pass
  ELSE IF ~RequestIsDict(data) THEN Err
  ELSE IF url_of(data).kind # "str" THEN Err             \* url.endswith
  ELSE IF EmptyPathSegment(url_of(data).v) THEN Hit(FP_RULE.EMPTY_PATH_PARAM)
  ELSE Pass

\* 25. EmptyJsonBody with 404
RuleEmptyJsonBodyNotFound(data) ==
  IF ~(/\ fuzzer_of(data) = JStr(<<"E","m","p","t","y","J","s","o","n","B","o","d","y">>)
       /\ response_code(data) = JInt(404))
  THEN Pass
  ELSE IF ~ErrorDescOk(data) THEN Err
  ELSE IF AnyIn({<<"n","o","t"," ","f","o","u","n","d">>, <<"d","o","e","s"," ","n","o","t"," ","e","x","i","s","t">>, <<"n","o"," ","s","u","c","h">>}, error_desc(data))
       THEN Hit(FP_RULE.EMPTY_JSON_BODY_NOT_FOUND)
  ELSE IF Contains(result_reason(data), <<"n","o","t"," ","f","o","u","n","d">>)
       THEN Hit(FP_RULE.EMPTY_JSON_BODY_NOT_FOUND)
  ELSE Pass

\* 26. StringFieldsLeftBoundary with an empty path parameter
RuleStringBoundaryEmptyPath(data) ==
  IF fuzzer_of(data) # JStr(<<"S","t","r","i","n","g","F","i","e","l","d","s","L","e","f","t","B","o","u","n","d","a","r","y">>) THEN Pass
  ELSE IF ~RequestIsDict(data) THEN Err
  ELSE IF url_of(data).kind # "str" THEN Err             \* url.endswith
  ELSE IF /\ EmptyPathSegment(url_of(data).v)
          /\ response_code(data) \in {JInt(200), JInt(405)}
       THEN Hit(FP_RULE.STRING_BOUNDARY_EMPTY_PATH)
  ELSE Pass

\* 27. No-body endpoints rejecting request bodies
RuleNoBodyEndpoint(data) ==
  IF response_code(data) # JInt(400) THEN Pass
  ELSE IF ~ErrorDescOk(data) THEN Err
  ELSE IF Contains(error_desc(data), <<"d","o","e","s"," ","n","o","t"," ","a","c","c","e","p","t"," ","a"," ","r","e","q","u","e","s","t"," ","b","o","d","y">>)
       THEN Hit(FP_RULE.NO_BODY_ENDPOINT)
  ELSE IF ~ResponseBodyOk(data) THEN Err
  ELSE IF Contains(response_body(data), <<"d","o","e","s"," ","n","o","t"," ","a","c","c","e","p","t"," ","a"," ","r","e","q","u","e","s","t"," ","b","o","d","y">>)
       THEN Hit(FP_RULE.NO_BODY_ENDPOINT)
  ELSE Pass

\* 28. Survey endpoint validation (400)
RuleSurveyValidation400(data) ==
  IF response_code(data) # JInt(400) THEN Pass
  ELSE IF ~RequestIsDict(data) THEN Err
  ELSE IF ~PyInOk(path_of(data)) THEN Err                \* '...' in path
  ELSE IF /\ PyIn(<<"/","a","d","m","i","n","/","s","u","r","v","e","y","s">>, path_of(data))
          /\ request_method(data) \in {JStr(<<"P","O","S","T">>), JStr(<<"P","U","T">>)}
          /\ Contains(result_reason(data), <<"u","n","e","x","p","e","c","t","e","d"," ","r","e","s","p","o","n","s","e"," ","c","o","d","e">>)
       THEN Hit(FP_RULE.SURVEY_VALIDATION_400)
  ELSE Pass

\* 29. Survey DELETE 409
RuleSurveyDeleteConflict409(data) ==
  IF response_code(data) # JInt(409) THEN Pass
  ELSE IF ~RequestIsDict(data) THEN Err
  ELSE IF ~PyInOk(path_of(data)) THEN Err
  ELSE IF /\ PyIn(<<"/","a","d","m","i","n","/","s","u","r","v","e","y","s","/">>, path_of(data))
          /\ request_method(data) = JStr(<<"D","E","L","E","T","E">>)
       THEN Hit(FP_RULE.SURVEY_DELETE_CONFLICT_409)
  ELSE Pass

\* 30. JSON Patch validation (400)
RuleJsonPatchInvalid400(data) ==
  IF response_code(data) # JInt(400) THEN Pass
  ELSE IF ~RequestIsDict(data) THEN Err
  ELSE IF /\ request_method(data) = JStr(<<"P","A","T","C","H">>)
          /\ Contains(result_reason(data), <<"u","n","e","x","p","e","c","t","e","d"," ","r","e","s","p","o","n","s","e"," ","c","o","d","e">>)
       THEN Hit(FP_RULE.JSONPATCH_INVALID_400)
  ELSE Pass

\* 31. Survey response endpoint validation (400)
RuleSurveyResponseValidation400(data) ==
  IF response_code(data) # JInt(400) THEN Pass
  ELSE IF ~RequestIsDict(data) THEN Err
  ELSE IF ~PyInOk(path_of(data)) THEN Err
  ELSE IF /\ PyIn(<<"/","s","u","r","v","e","y","_","r","e","s","p","o","n","s","e","s">>, path_of(data))
          /\ request_method(data) \in {JStr(<<"P","O","S","T">>), JStr(<<"P","U","T">>)}
          /\ Contains(result_reason(data), <<"u","n","e","x","p","e","c","t","e","d"," ","r","e","s","p","o","n","s","e"," ","c","o","d","e">>)
       THEN Hit(FP_RULE.SURVEY_RESPONSE_VALIDATION_400)
  ELSE Pass

\* 32. Bulk metadata validation (400)
RuleMetadataBulkValidation400(data) ==
  IF response_code(data) # JInt(400) THEN Pass
  ELSE IF ~PyInOk(path_of(data)) THEN Err
  ELSE IF /\ PyIn(<<"/","m","e","t","a","d","a","t","a","/","b","u","l","k">>, path_of(data))
          /\ Contains(result_reason(data), <<"u","n","e","x","p","e","c","t","e","d"," ","r","e","s","p","o","n","s","e"," ","c","o","d","e">>)
       THEN Hit(FP_RULE.METADATA_BULK_VALIDATION_400)
  ELSE Pass

\* 33. Metadata list returning 200 for random resources
RuleMetadataListRandom200(data) ==
  IF ~(/\ response_code(data) = JInt(200)
       /\ fuzzer_of(data) = JStr(<<"R","a","n","d","o","m","R","e","s","o","u","r","c","e","s">>))
  THEN Pass
  ELSE IF ~RequestIsDict(data) THEN Err
  ELSE IF ~PyInOk(path_of(data)) THEN Err
  ELSE IF /\ PyIn(<<"/","m","e","t","a","d","a","t","a">>, path_of(data))
          /\ request_method(data) = JStr(<<"G","E","T">>)
       THEN Hit(FP_RULE.METADATA_LIST_RANDOM_200)
  ELSE Pass

\* result == 'warn' and 'not matching response schema' in result_reason
SchemaMismatchWarning(data) ==
  /\ result_lower(data) = <<"w","a","r","n">>
  /\ Contains(result_reason(data), <<"n","o","t"," ","m","a","t","c","h","i","n","g"," ","r","e","s","p","o","n","s","e"," ","s","c","h","e","m","a">>)

\* 34. Schema mismatch warnings with valid Error responses
RuleSchemaMismatchValidError(data) ==
  IF /\ SchemaMismatchWarning(data)
     /\ json_body(data).kind = "dict"
     /\ \/ /\ "error" \in DOMAIN json_body(data).v
           /\ "error_description" \in DOMAIN json_body(data).v
        \/ /\ "error" \in DOMAIN json_body(data).v
           /\ response_code(data) = JInt(400)
        \/ Get(json_body(data), "notAJson", JNull) = JStr(<<"4","0","0"," ","B","a","d"," ","R","e","q","u","e","s","t">>)
  THEN Hit(FP_RULE.SCHEMA_MISMATCH_VALID_ERROR) ELSE Pass

\* 35. SSRF payload reflected in validation errors
RuleSsrfValidation400(data) ==
  IF /\ StrIn(fuzzer_of(data), {<<"S","S","R","F","I","n","U","r","l","F","i","e","l","d","s">>, <<"S","s","r","f","I","n","j","e","c","t","i","o","n","I","n","S","t","r","i","n","g","F","i","e","l","d","s">>})
     /\ response_code(data) = JInt(400)
  THEN Hit(FP_RULE.SSRF_VALIDATION_400) ELSE Pass

\* 36. ExamplesFields 409 on survey create
RuleSurveyExamplesConflict409(data) ==
  IF ~(/\ response_code(data) = JInt(409)
       /\ fuzzer_of(data) = JStr(<<"E","x","a","m","p","l","e","s","F","i","e","l","d","s">>))
  THEN Pass
  ELSE IF ~PyInOk(path_of(data)) THEN Err
  ELSE IF PyIn(<<"/","a","d","m","i","n","/","s","u","r","v","e","y","s">>, path_of(data))
       THEN Hit(FP_RULE.SURVEY_EXAMPLES_CONFLICT_409)
  ELSE Pass

\* 37. Survey metadata POST 409
RuleSurveyMetadataConflict409(data) ==
  IF response_code(data) # JInt(409) THEN Pass
  ELSE IF ~RequestIsDict(data) THEN Err
  ELSE IF ~PyInOk(path_of(data)) THEN Err
  ELSE IF /\ PyIn(<<"/","a","d","m","i","n","/","s","u","r","v","e","y","s","/">>, path_of(data))
          /\ PyIn(<<"/","m","e","t","a","d","a","t","a">>, path_of(data))
          /\ request_method(data) = JStr(<<"P","O","S","T">>)
       THEN Hit(FP_RULE.SURVEY_METADATA_CONFLICT_409)
  ELSE Pass

\* 38. Empty JSON array body returning 200
RuleEmptyArrayBody200(data) ==
  IF /\ fuzzer_of(data) = JStr(<<"E","m","p","t","y","J","s","o","n","A","r","r","a","y","B","o","d","y">>)
     /\ response_code(data) = JInt(200)
  THEN Hit(FP_RULE.EMPTY_ARRAY_BODY_200) ELSE Pass

\* 39. SAML ACS returning 400
RuleSamlAcsNoIdp(data) ==
  IF /\ response_code(data) = JInt(400)
     /\ path_of(data) = JStr(<<"/","s","a","m","l","/","a","c","s">>)
  THEN Hit(FP_RULE.SAML_ACS_NO_IDP) ELSE Pass

\* 40. Survey response POST schema mismatch
RuleSurveyResponseSchemaAllOf(data) ==
  IF ~SchemaMismatchWarning(data) THEN Pass
  ELSE IF ~PyInOk(path_of(data)) THEN Err
  ELSE IF /\ PyIn(<<"/","s","u","r","v","e","y","_","r","e","s","p","o","n","s","e","s">>, path_of(data))
          /\ json_body(data).kind = "dict"
          /\ "id" \in DOMAIN json_body(data).v
          /\ "survey_id" \in DOMAIN json_body(data).v
       THEN Hit(FP_RULE.SURVEY_RESPONSE_SCHEMA_ALLOF)
  ELSE Pass

\* The rules in the order of the source.
Rules(data) ==
  << RuleRateLimit(data), RuleOAuthAuth(data), RuleValidation400(data),
     RuleNotFound404(data), RuleIdor(data), RuleHttpMethods(data),
     RuleResponseContract(data), RuleConflict409(data),
     RuleContentTypeGoHttp(data), RuleInjectionJsonApi(data),
     RuleXssQueryParams(data), RuleHeaderValidation(data),
     RuleLeadingZeros(data), RuleConnectionError(data),
     RuleStringBoundaryOptional(data), RuleTransferEncoding(data),
     RuleDeletedResourceList(data), RuleFormUrlencodedJsonTest(data),
     RuleDeleteMeChallenge(data), RuleAdminSettingsReserved(data),
     RulePathParamValidation(data), RuleEmptyBodyRequired(data),
     RuleEmptyPathParam(data), RuleEmptyJsonBodyNotFound(data),
     RuleStringBoundaryEmptyPath(data), RuleNoBodyEndpoint(data),
     RuleSurveyValidation400(data), RuleSurveyDeleteConflict409(data),
     RuleJsonPatchInvalid400(data), RuleSurveyResponseValidation400(data),
     RuleMetadataBulkValidation400(data), RuleMetadataListRandom200(data),
     RuleSchemaMismatchValidError(data), RuleSsrfValidation400(data),
     RuleSurveyExamplesConflict409(data), RuleSurveyMetadataConflict409(data),
     RuleEmptyArrayBody200(data), RuleSamlAcsNoIdp(data),
     RuleSurveyResponseSchemaAllOf(data) >>

\* Variant: the last rule that returns or raises decides.  C15 does not
\* survive it.
LastOutcome(outs, k) ==
  LET decided == {m \in k..Len(outs) : outs[m].out # "pass"}
  IN  IF decided = {} THEN Pass
      ELSE outs[CHOOSE m \in decided : \A n \in decided : n <= m]

\* The first rule from k on that returns or raises decides.
RECURSIVE FirstOutcome(_, _)
FirstOutcome(outs, k) ==
  IF k > Len(outs) THEN Pass
  ELSE IF outs[k].out # "pass" THEN outs[k]
  ELSE FirstOutcome(outs, k + 1)

\* Variant: a classifier that runs the rules whatever the result.  C11
\* does not survive it.
DetectWhateverResult(data) ==
  IF PreambleRaises(data) THEN FpRaise
  ELSE LET o == FirstOutcome(Rules(data), 1)
       IN  CASE o.out = "hit"   -> FpReturn(TRUE, JStr(o.rule))
             [] o.out = "raise" -> FpRaise
             [] o.out = "pass"  -> FpReturn(FALSE, JNull)

\* CATSResultsParser.detect_false_positive(data)
detect_false_positive(data) ==
  IF PreambleRaises(data) THEN FpRaise
  ELSE IF result_lower(data) \notin {<<"e","r","r","o","r">>, <<"w","a","r","n">>}
       THEN FpReturn(FALSE, JNull)
  ELSE LET o == FirstOutcome(Rules(data), 1)
       IN  CASE o.out = "hit"   -> FpReturn(TRUE, JStr(o.rule))
             [] o.out = "raise" -> FpRaise
             [] o.out = "pass"  -> FpReturn(FALSE, JNull)

\* ------------------------------------------------------------------------
\* insert_test_record
\* ------------------------------------------------------------------------

\* x[key] succeeds: x is a dict holding key
HasItem(x, key) == x.kind = "dict" /\ key \in DOMAIN x.v

\* int(x or 0): succeeds on None, an int, or a str that int() parses
IntOrZeroOk(x) ==
  LET y == Or(x, JInt(0))
  IN  y.kind = "int" \/ (y.kind = "str" /\ PyInt(y.v).ok)

IntOrZero(x) ==
  LET y == Or(x, JInt(0))
  IN  IF y.kind = "int" THEN y.v ELSE PyInt(y.v).val

\* The header rows of one executemany, from the list comprehension
\* [(parent_id, h['key'], h['value'], idx) for idx, h in enumerate(hs)]:
\* it raises unless hs is iterable and every h holds 'key' and 'value'.
HeaderListOk(hs) ==
  /\ hs.kind = "list"
  /\ \A k \in 1..Len(hs.v) : HasItem(hs.v[k], "key") /\ HasItem(hs.v[k], "value")

\* executemany: the rows are inserted one statement at a time, in order,
\* up to the first one that fails; rows before it stay.
RECURSIVE InsertHeaders(_, _, _, _, _, _)
InsertHeaders(db, t, parent, parent_id, hs, idx) ==
  IF idx > Len(hs) THEN [db |-> db, raised |-> FALSE]
  ELSE IF ~(/\ Bindable(hs[idx].v.key) /\ Bindable(hs[idx].v.value)
             /\ hs[idx].v.key.kind # "null"
             /\ hs[idx].v.value.kind # "null")
       THEN [db |-> db, raised |-> TRUE]    \* the value does not bind, or is NULL
  ELSE InsertHeaders(
         InsertRow(db, t, (parent :> parent_id) @@
                          [header_key   |-> BindText(hs[idx].v.key),
                           header_value |-> BindText(hs[idx].v.value),
                           header_order |-> idx - 1]),
         t, parent, parent_id, hs, idx + 1)

\* INSERT INTO tests: the parameters bind; NOT NULL, UNIQUE(test_id) and the
\* four foreign keys (PRAGMA foreign_keys = ON) hold.
TestsInsertOk(db, d, ids) ==
  /\ \A f \in {"testId", "traceId", "scenario", "expectedResult"} :
       Bindable(d.v[f]) /\ d.v[f].kind # "null"
  /\ Bindable(Get(d, "resultReason", JNull))
  /\ Bindable(Get(d, "resultDetails", JNull))
  /\ \A r \in db.tests : r.test_id # BindText(d.v.testId)
  /\ ids[1] \in Ids(db.result_types)
  /\ ids[2] \in Ids(db.fuzzers)
  /\ ids[3] \in Ids(db.servers)
  /\ ids[4] \in Ids(db.paths)

\* insert_test_record is written below one statement group per operator,
\* last group first; each group hands the parser state to the next, and an
\* exception ends the call with the state reached so far.

WithDb(s, db) == [s EXCEPT !.db = db]

\* Lines 1282-1292: the response headers, then the return.
AfterResponseHeaders(s, h) ==
  IF h.raised THEN Raise(WithDb(s, h.db)) ELSE Return(WithDb(s, h.db), 0)

InsertResponseHeaders(s, response_data, response_id) ==
  LET hs == Or(Get(response_data, "headers", JNull), JList(<<>>))
  IN  IF ~HeaderListOk(hs) THEN Raise(s)
      ELSE AfterResponseHeaders(s,
             InsertHeaders(s.db, "response_headers", "response_id",
                           response_id, hs.v, 1))

\* Lines 1270-1280: the request headers.
AfterRequestHeaders(s, h, response_data, response_id) ==
  IF h.raised THEN Raise(WithDb(s, h.db))
  ELSE InsertResponseHeaders(WithDb(s, h.db), response_data, response_id)

InsertRequestHeaders(s, request_data, response_data, request_id, response_id) ==
  LET hs == Or(Get(request_data, "headers", JNull), JList(<<>>))
  IN  IF ~HeaderListOk(hs) THEN Raise(s)
      ELSE AfterRequestHeaders(s,
             InsertHeaders(s.db, "request_headers", "request_id",
                           request_id, hs.v, 1),
             response_data, response_id)

\* Lines 1253-1268: INSERT INTO responses.
ResponseOk(db, response_data, method_id) ==
  /\ HasItem(response_data, "responseCode")
  /\ IntOrZeroOk(Get(response_data, "responseTimeInMs", JInt(0)))
  /\ IntOrZeroOk(Get(response_data, "numberOfWordsInResponse", JInt(0)))
  /\ IntOrZeroOk(Get(response_data, "numberOfLinesInResponse", JInt(0)))
  /\ IntOrZeroOk(Get(response_data, "contentLengthInBytes", JInt(0)))
  /\ Bindable(response_data.v.responseCode)
  /\ response_data.v.responseCode.kind # "null"
  /\ Bindable(Get(response_data, "responseContentType", JNull))
  /\ method_id \in Ids(db.http_methods)

ResponseRow(test_id, response_data, method_id) ==
  [test_id               |-> test_id,
   http_method_id        |-> method_id,
   response_code         |-> BindInteger(response_data.v.responseCode),
   response_time_ms      |->
     IntOrZero(Get(response_data, "responseTimeInMs", JInt(0))),
   num_words             |->
     IntOrZero(Get(response_data, "numberOfWordsInResponse", JInt(0))),
   num_lines             |->
     IntOrZero(Get(response_data, "numberOfLinesInResponse", JInt(0))),
   content_length_bytes  |->
     IntOrZero(Get(response_data, "contentLengthInBytes", JInt(0))),
   response_content_type |-> BindText(Get(response_data, "responseContentType", JNull))]

AfterResponse(s, request_data, response_data, request_id) ==
  InsertRequestHeaders(s, request_data, response_data, request_id,
                       LastRowId(s.db, "responses"))

InsertResponse(r, test_id, request_data, response_data, request_id) ==
  IF r.raised THEN Raise(r.s)
  ELSE IF ~ResponseOk(r.s.db, response_data, r.val) THEN Raise(r.s)
  ELSE AfterResponse(
         WithDb(r.s, InsertRow(r.s.db, "responses",
                               ResponseRow(test_id, response_data, r.val))),
         request_data, response_data, request_id)

\* Lines 1249-1251: response_data = data['response'] and its method.
ResponseMethod(s, test_id, request_data, response_data) ==
  IF ~HasItem(response_data, "httpMethod") THEN Raise(s)
  ELSE InsertResponse(get_or_create_method(s, response_data.v.httpMethod),
                      test_id, request_data, response_data,
                      LastRowId(s.db, "requests"))

\* Lines 1238-1247: INSERT INTO requests.
RequestOk(db, request_data, method_id) ==
  /\ HasItem(request_data, "url")
  /\ Bindable(request_data.v.url) /\ request_data.v.url.kind # "null"
  /\ Bindable(Get(request_data, "timestamp", JStr(<<>>)))
  /\ Get(request_data, "timestamp", JStr(<<>>)).kind # "null"
  /\ method_id \in Ids(db.http_methods)

RequestRow(test_id, request_data, method_id) ==
  [test_id        |-> test_id,
   http_method_id |-> method_id,
   url            |-> BindText(request_data.v.url),
   timestamp      |-> BindText(Get(request_data, "timestamp", JStr(<<>>)))]

InsertRequest(r, test_id, request_data, response_data) ==
  IF r.raised THEN Raise(r.s)
  ELSE IF ~RequestOk(r.s.db, request_data, r.val) THEN Raise(r.s)
  ELSE ResponseMethod(
         WithDb(r.s, InsertRow(r.s.db, "requests",
                               RequestRow(test_id, request_data, r.val))),
         test_id, request_data, response_data)

\* Lines 1234-1236: request_data = data['request'] and its method.
RequestMethod(s, data) ==
  IF ~HasItem(data.v.request, "httpMethod") THEN Raise(s)
  ELSE InsertRequest(get_or_create_method(s, data.v.request.v.httpMethod),
                     LastRowId(s.db, "tests"), data.v.request, data.v.response)

\* Lines 1203-1232: INSERT INTO tests.
TestsRow(data, source_file, ids, fp) ==
  [test_id           |-> BindText(data.v.testId),
   test_number       |-> extract_test_number(data.v.testId.v),
   trace_id          |-> BindText(data.v.traceId),
   scenario          |-> BindText(data.v.scenario),
   expected_result   |-> BindText(data.v.expectedResult),
   result_type_id    |-> ids[1],
   fuzzer_id         |-> ids[2],
   server_id         |-> ids[3],
   path_id           |-> ids[4],
   result_reason     |-> BindText(Get(data, "resultReason", JNull)),
   result_details    |-> BindText(Get(data, "resultDetails", JNull)),
   source_file       |-> source_file,
   is_false_positive |-> IF fp.is_fp THEN 1 ELSE 0,
   fp_rule           |-> BindText(fp.rule)]

InsertTest(s, data, source_file, ids, fp) ==
  IF fp.raised THEN Raise(s)
  ELSE IF ~TestsInsertOk(s.db, data, ids) THEN Raise(s)
  ELSE RequestMethod(
         WithDb(s, InsertRow(s.db, "tests", TestsRow(data, source_file, ids, fp))),
         data)

\* Lines 1194-1201: the four dimension ids, the test number, the verdict.
AfterPath(r, data, source_file, ids) ==
  IF r.raised THEN Raise(r.s)
  ELSE IF data.v.testId.kind # "str" THEN Raise(r.s)   \* test_id.replace
  ELSE InsertTest(r.s, data, source_file, ids \o <<r.val>>,
                  detect_false_positive(data))

AfterServer(r, data, source_file, ids) ==
  IF r.raised THEN Raise(r.s)
  ELSE AfterPath(get_or_create_path(r.s, data.v.path,
                                    Get(data, "contractPath", JStr(<<>>))),
                 data, source_file, ids \o <<r.val>>)

AfterFuzzer(r, data, source_file, ids) ==
  IF r.raised THEN Raise(r.s)
  ELSE AfterServer(get_or_create_server(r.s, data.v.server),
                   data, source_file, ids \o <<r.val>>)

AfterResultType(r, data, source_file) ==
  IF r.raised THEN Raise(r.s)
  ELSE AfterFuzzer(get_or_create_fuzzer(r.s, data.v.fuzzer),
                   data, source_file, <<r.val>>)

\* CATSResultsParser.insert_test_record(data, source_file) from parser state
\* s: the state it leaves, and whether it raised.  Every statement that ran
\* before the exception keeps its effect on s.
insert_test_record(s, data, source_file) ==
  IF data.kind # "dict" THEN Raise(s)              \* data['result'] on a list
  ELSE AfterResultType(get_or_create_result_type(s, data.v.result),
                       data, source_file)

\* ------------------------------------------------------------------------
\* parse_json_file
\* ------------------------------------------------------------------------


required_fields ==
  {"testId", "traceId", "scenario", "expectedResult", "result",
   "fuzzer", "path", "server", "request", "response"}

\* A file's content: text json.load rejects, or the JSON value it holds.
Unparseable == [kind |-> "invalid", v |-> <<>>]

\* f not in data, as Python evaluates it on each type of data
NotIn(f, data) ==
  CASE data.kind = "dict" -> f \notin DOMAIN data.v
    [] data.kind = "list" -> \A k \in 1..Len(data.v) : data.v[k] # JStr(KeyText[f])
    [] data.kind = "str"  -> ~Contains(data.v, KeyText[f])

\* CATSResultsParser.parse_json_file: the parsed document, or None.
parse_json_file(content) ==
  IF content.kind = "invalid" THEN JNull            \* json.JSONDecodeError
  ELSE IF content.kind \in {"null", "int"} THEN JNull    \* TypeError, caught
  ELSE IF \E f \in required_fields : NotIn(f, content) THEN JNull
  ELSE content

\* ------------------------------------------------------------------------
\* The input directories explored
\* ------------------------------------------------------------------------

s_json == <<".","j","s","o","n">>
s_Test_1 == <<"T","e","s","t"," ","1">>
s_Test_2 == <<"T","e","s","t"," ","2">>
s_Test_3 == <<"T","e","s","t"," ","3">>
s_Test_10 == <<"T","e","s","t"," ","1","0">>
s_Test_5 == <<"T","e","s","t"," ","5">>
s_Test_7 == <<"T","e","s","t"," ","7">>
s_Test_8 == <<"T","e","s","t"," ","8">>
s_Test3 == <<"T","e","s","t","3">>
s_Test10 == <<"T","e","s","t","1","0">>
s_Test6 == <<"T","e","s","t","6">>
s_GET == <<"G","E","T">>
s_POST == <<"P","O","S","T">>
s_success == <<"s","u","c","c","e","s","s">>
s_HappyPath == <<"H","a","p","p","y","P","a","t","h">>
s_NewFields == <<"N","e","w","F","i","e","l","d","s">>
s_slash_a == <<"/","a">>
s_slash_b == <<"/","b">>
s_slash_x == <<"/","x">>
s_host == <<"h","t","t","p",":","/","/","h">>
s_t == <<"t">>
s_s == <<"s">>
s_e == <<"e">>
s_u == <<"u">>
s_k == <<"k">>
s_v == <<"v">>
s_w == <<"w">>

Header(k, v) == JDict([key |-> JStr(k), value |-> JStr(v)])

\* A well-formed request block; two headers with the same key.
RequestGet ==
  JDict([httpMethod |-> JStr(s_GET), url |-> JStr(s_u), timestamp |-> JStr(s_t),
         headers |-> JList(<<Header(s_k, s_v), Header(s_k, s_w)>>)])

ResponseOf(code) ==
  JDict([httpMethod |-> JStr(s_GET), responseCode |-> JInt(code),
         responseTimeInMs |-> JInt(7),
         headers |-> JList(<<Header(s_k, s_v)>>)])

\* The fields every record of the catalogue shares.
BaseRecord(test_id, res, fz, pth, code) ==
  [testId |-> JStr(test_id), traceId |-> JStr(s_t), scenario |-> JStr(s_s),
   expectedResult |-> JStr(s_e), result |-> JStr(res),
   fuzzer |-> JStr(fz), path |-> JStr(pth), server |-> JStr(s_host),
   request |-> RequestGet, response |-> ResponseOf(code)]

\* The files a directory is drawn from: a stem (the name is stem + ".json")
\* and the content.
Catalog ==
  << \* a warn record answered 429, with a contract path
     [stem |-> s_Test_1,
      content |-> JDict(BaseRecord(s_Test_1, s_warn, s_HappyPath, s_slash_a, 429)
                        @@ [contractPath |-> JStr(s_slash_a)])],
     \* a success record: other fuzzer, path and method, null header lists
     [stem |-> s_Test_2,
      content |-> JDict(
        [BaseRecord(s_Test_2, s_success, s_NewFields, s_slash_b, 200)
           EXCEPT !.request =
                    JDict([httpMethod |-> JStr(s_POST), url |-> JStr(s_u),
                           headers |-> JNull]),
                  !.response =
                    JDict([httpMethod |-> JStr(s_POST),
                           responseCode |-> JInt(200)])])],
     \* an error record on the path of the first with another contract path
     [stem |-> s_Test10,
      content |-> JDict(BaseRecord(s_Test_10, s_error, s_HappyPath, s_slash_a, 500)
                        @@ [contractPath |-> JStr(s_slash_x)])],
     \* a record whose request block has no httpMethod, on the path of the
     \* first without a contract path
     [stem |-> s_Test3,
      content |-> JDict(
        [BaseRecord(s_Test_3, s_error, s_NewFields, s_slash_a, 500)
           EXCEPT !.request = JDict([url |-> JStr(s_u)])])],
     \* a file that is not JSON
     [stem |-> s_Test_5, content |-> Unparseable],
     \* a JSON array of the field names
     [stem |-> s_Test6,
      content |-> JList(<<JStr(KeyText.testId), JStr(KeyText.traceId),
                          JStr(KeyText.scenario), JStr(KeyText.expectedResult),
                          JStr(KeyText.result), JStr(KeyText.fuzzer),
                          JStr(KeyText.path), JStr(KeyText.server),
                          JStr(KeyText.request), JStr(KeyText.response)>>)],
     \* a JSON object without "response"
     [stem |-> s_Test_7,
      content |-> JDict([testId |-> JStr(s_Test_7), traceId |-> JStr(s_t),
                         scenario |-> JStr(s_s), expectedResult |-> JStr(s_e),
                         result |-> JStr(s_warn), fuzzer |-> JStr(s_HappyPath),
                         path |-> JStr(s_slash_a), server |-> JStr(s_host),
                         request |-> RequestGet])],
     \* a record with a response header entry that has no "key"
     [stem |-> s_Test_8,
      content |-> JDict(
        [BaseRecord(s_Test_8, s_warn, s_NewFields, s_slash_b, 429)
           EXCEPT !.response =
                    JDict([httpMethod |-> JStr(s_GET), responseCode |-> JInt(429),
                           headers |-> JList(<<JDict([value |-> JStr(s_v)])>>)])])]
  >>

FileIds == DOMAIN Catalog

\* filepath.name of a file (filepath.stem is Catalog[f].stem)
Name(f) == Catalog[f].stem \o s_json

\* The directory listings: up to MaxFiles distinct files, in any order.
Listings ==
  {q \in UNION {[1..n -> FileIds] : n \in 0..MaxFiles} :
     \A a, b \in DOMAIN q : a # b => q[a] # q[b]}

\* sorted(files, key=lambda p: extract_test_number(p.stem)): a stable sort.
SortKey(f) == extract_test_number(Catalog[f].stem)

RECURSIVE SortedFrom(_, _)
SortedFrom(done, rest) ==
  IF rest = <<>> THEN done
  ELSE LET f   == Head(rest)
           pos == Cardinality({k \in DOMAIN done : SortKey(done[k]) <= SortKey(f)})
       IN  SortedFrom(SubSeq(done, 1, pos) \o <<f>> \o SubSeq(done, pos + 1, Len(done)),
                      Tail(rest))

Sorted(files) == SortedFrom(<<>>, files)

\* ------------------------------------------------------------------------
\* Records for the classifier
\* ------------------------------------------------------------------------

\* One record per rule id that the rule's condition fits (two for
\* INJECTION_JSON_API, whose id two rules return), with the fuzzers the
\* rule's condition names.
Probes ==
  <<
  [rule |-> FP_RULE.RATE_LIMIT,
   fuzzers |-> {},
   rec |-> JDict([testId |-> JStr(<<"T","e","s","t"," ","1">>),
     traceId |-> JStr(<<"t">>), scenario |-> JStr(<<"s">>),
     expectedResult |-> JStr(<<"e">>),
     result |-> JStr(<<"e","r","r","o","r">>), fuzzer |-> JStr(<<"Z","Z">>),
     path |-> JStr(<<"/","a">>), server |-> JStr(<<"h">>),
     request |-> JDict([httpMethod |-> JStr(<<"G","E","T">>),
     url |-> JStr(<<"u">>)]),
     response |-> JDict([httpMethod |-> JStr(<<"G","E","T">>),
     responseCode |-> JInt(429)])])],
  [rule |-> FP_RULE.OAUTH_AUTH,
   fuzzers |-> {},
   rec |-> JDict([testId |-> JStr(<<"T","e","s","t"," ","1">>),
     traceId |-> JStr(<<"t">>), scenario |-> JStr(<<"s">>),
     expectedResult |-> JStr(<<"e">>),
     result |-> JStr(<<"e","r","r","o","r">>), fuzzer |-> JStr(<<"Z","Z">>),
     path |-> JStr(<<"/","a">>), server |-> JStr(<<"h">>),
     request |-> JDict([httpMethod |-> JStr(<<"G","E","T">>),
     url |-> JStr(<<"u">>)]),
     response |-> JDict([httpMethod |-> JStr(<<"G","E","T">>),
     responseCode |-> JInt(401)]),
     resultReason |-> JStr(<<"U","n","a","u","t","h","o","r","i","z","e","d">>)])],
  [rule |-> FP_RULE.VALIDATION_400,
   fuzzers |-> {<<"Z","e","r","o","W","i","d","t","h","C","h","a","r","s","I","n","V","a","l","u","e","s","F","i","e","l","d","s">>,
     <<"Z","e","r","o","W","i","d","t","h","C","h","a","r","s","I","n","N","a","m","e","s","F","i","e","l","d","s">>,
     <<"H","a","n","g","u","l","C","h","a","r","s","I","n","S","t","r","i","n","g","F","i","e","l","d","s">>,
     <<"A","r","a","b","i","c","C","h","a","r","s","I","n","S","t","r","i","n","g","F","i","e","l","d","s">>,
     <<"H","a","n","g","u","l","F","i","l","l","e","r","F","i","e","l","d","s">>,
     <<"B","i","d","i","r","e","c","t","i","o","n","a","l","O","v","e","r","r","i","d","e","F","i","e","l","d","s">>,
     <<"Z","a","l","g","o","T","e","x","t","I","n","F","i","e","l","d","s">>,
     <<"A","b","u","g","i","d","a","s","I","n","S","t","r","i","n","g","F","i","e","l","d","s">>,
     <<"F","u","l","l","w","i","d","t","h","B","r","a","c","k","e","t","s","F","i","e","l","d","s">>,
     <<"S","p","e","c","i","a","l","C","h","a","r","s","I","n","S","t","r","i","n","g","F","i","e","l","d","s">>,
     <<"C","o","n","t","r","o","l","C","h","a","r","s","I","n","S","t","r","i","n","g","F","i","e","l","d","s">>,
     <<"E","m","o","j","i","s","I","n","S","t","r","i","n","g","F","i","e","l","d","s">>,
     <<"T","r","a","i","l","i","n","g","S","p","a","c","e","s","I","n","F","i","e","l","d","s">>,
     <<"L","e","a","d","i","n","g","S","p","a","c","e","s","I","n","F","i","e","l","d","s">>,
     <<"O","v","e","r","f","l","o","w","A","r","r","a","y","S","i","z","e","F","i","e","l","d","s">>,
     <<"E","x","t","r","e","m","e","N","e","g","a","t","i","v","e","N","u","m","b","e","r","s","I","n","N","u","m","e","r","i","c","F","i","e","l","d","s">>,
     <<"E","x","t","r","e","m","e","P","o","s","i","t","i","v","e","N","u","m","b","e","r","s","I","n","N","u","m","e","r","i","c","F","i","e","l","d","s">>,
     <<"V","e","r","y","L","a","r","g","e","S","t","r","i","n","g","s">>,
     <<"V","e","r","y","L","a","r","g","e","U","n","i","c","o","d","e","S","t","r","i","n","g","s">>,
     <<"M","a","l","f","o","r","m","e","d","J","s","o","n">>,
     <<"D","u","p","l","i","c","a","t","e","K","e","y","s","F","i","e","l","d","s">>,
     <<"I","n","v","a","l","i","d","J","s","o","n","I","n","R","e","q","u","e","s","t","B","o","d","y">>,
     <<"N","u","l","l","V","a","l","u","e","s","I","n","F","i","e","l","d","s">>,
     <<"E","m","p","t","y","S","t","r","i","n","g","s","I","n","F","i","e","l","d","s">>,
     <<"S","Q","L","I","n","j","e","c","t","i","o","n">>,
     <<"X","S","S","I","n","j","e","c","t","i","o","n">>,
     <<"P","a","t","h","T","r","a","v","e","r","s","a","l">>},
   rec |-> JDict([testId |-> JStr(<<"T","e","s","t"," ","1">>),
     traceId |-> JStr(<<"t">>), scenario |-> JStr(<<"s">>),
     expectedResult |-> JStr(<<"e">>),
     result |-> JStr(<<"e","r","r","o","r">>),
     fuzzer |-> JStr(<<"M","y","C","h","a","r","s">>),
     path |-> JStr(<<"/","a">>), server |-> JStr(<<"h">>),
     request |-> JDict([httpMethod |-> JStr(<<"G","E","T">>),
     url |-> JStr(<<"u">>)]),
     response |-> JDict([httpMethod |-> JStr(<<"G","E","T">>),
     responseCode |-> JInt(400)])])],
  [rule |-> FP_RULE.NOT_FOUND_404,
   fuzzers |-> {<<"R","a","n","d","o","m","R","e","s","o","u","r","c","e","s","F","u","z","z","e","r">>,
     <<"I","n","s","e","c","u","r","e","D","i","r","e","c","t","O","b","j","e","c","t","R","e","f","e","r","e","n","c","e","s">>,
     <<"R","a","n","d","o","m","F","o","r","e","i","g","n","K","e","y","R","e","f","e","r","e","n","c","e">>,
     <<"N","o","n","E","x","i","s","t","e","n","t","R","e","s","o","u","r","c","e">>,
     <<"R","a","n","d","o","m","R","e","s","o","u","r","c","e","s">>,
     <<"A","c","c","e","p","t","L","a","n","g","u","a","g","e","H","e","a","d","e","r","s">>,
     <<"C","h","e","c","k","S","e","c","u","r","i","t","y","H","e","a","d","e","r","s">>,
     <<"D","u","p","l","i","c","a","t","e","H","e","a","d","e","r","s">>,
     <<"E","x","t","r","a","H","e","a","d","e","r","s">>,
     <<"H","a","p","p","y","P","a","t","h">>,
     <<"L","a","r","g","e","N","u","m","b","e","r","O","f","R","a","n","d","o","m","A","l","p","h","a","n","u","m","e","r","i","c","H","e","a","d","e","r","s">>,
     <<"N","e","w","F","i","e","l","d","s">>,
     <<"I","n","v","a","l","i","d","R","e","f","e","r","e","n","c","e","s","F","i","e","l","d","s">>,
     <<"Z","e","r","o","W","i","d","t","h","C","h","a","r","s","I","n","V","a","l","u","e","s","F","i","e","l","d","s">>,
     <<"H","a","n","g","u","l","F","i","l","l","e","r","F","i","e","l","d","s">>,
     <<"A","b","u","g","i","d","a","s","I","n","S","t","r","i","n","g","F","i","e","l","d","s">>,
     <<"F","u","l","l","w","i","d","t","h","B","r","a","c","k","e","t","s","F","i","e","l","d","s">>,
     <<"I","t","e","r","a","t","e","T","h","r","o","u","g","h","E","n","u","m","V","a","l","u","e","s","F","i","e","l","d","s">>,
     <<"R","e","m","o","v","e","F","i","e","l","d","s">>,
     <<"D","e","f","a","u","l","t","V","a","l","u","e","s","I","n","F","i","e","l","d","s">>,
     <<"E","x","t","r","e","m","e","P","o","s","i","t","i","v","e","N","u","m","b","e","r","s","I","n","I","n","t","e","g","e","r","F","i","e","l","d","s">>,
     <<"E","x","t","r","e","m","e","N","e","g","a","t","i","v","e","N","u","m","b","e","r","s","I","n","I","n","t","e","g","e","r","F","i","e","l","d","s">>,
     <<"I","n","t","e","g","e","r","F","i","e","l","d","s","R","i","g","h","t","B","o","u","n","d","a","r","y">>,
     <<"L","e","a","d","i","n","g","S","p","a","c","e","s","I","n","H","e","a","d","e","r","s">>,
     <<"M","a","x","L","e","n","g","t","h","E","x","a","c","t","V","a","l","u","e","s","I","n","S","t","r","i","n","g","F","i","e","l","d","s">>,
     <<"T","r","a","i","l","i","n","g","S","p","a","c","e","s","I","n","H","e","a","d","e","r","s">>,
     <<"E","m","p","t","y","S","t","r","i","n","g","s","I","n","F","i","e","l","d","s">>,
     <<"E","x","a","m","p","l","e","s","F","i","e","l","d","s">>,
     <<"M","a","x","i","m","u","m","E","x","a","c","t","N","u","m","b","e","r","s","I","n","N","u","m","e","r","i","c","F","i","e","l","d","s">>,
     <<"M","i","n","L","e","n","g","t","h","E","x","a","c","t","V","a","l","u","e","s","I","n","S","t","r","i","n","g","F","i","e","l","d","s">>,
     <<"M","i","n","i","m","u","m","E","x","a","c","t","N","u","m","b","e","r","s","I","n","N","u","m","e","r","i","c","F","i","e","l","d","s">>,
     <<"N","u","l","l","V","a","l","u","e","s","I","n","F","i","e","l","d","s">>,
     <<"R","e","m","o","v","e","H","e","a","d","e","r","s">>,
     <<"S","t","r","i","n","g","F","i","e","l","d","s","L","e","f","t","B","o","u","n","d","a","r","y">>,
     <<"S","t","r","i","n","g","F","i","e","l","d","s","R","i","g","h","t","B","o","u","n","d","a","r","y">>,
     <<"V","e","r","y","L","a","r","g","e","S","t","r","i","n","g","s","I","n","F","i","e","l","d","s">>},
   rec |-> JDict([testId |-> JStr(<<"T","e","s","t"," ","1">>),
     traceId |-> JStr(<<"t">>), scenario |-> JStr(<<"s">>),
     expectedResult |-> JStr(<<"e">>),
     result |-> JStr(<<"e","r","r","o","r">>), fuzzer |-> JStr(<<"Z","Z">>),
     path |-> JStr(<<"/","a">>), server |-> JStr(<<"h">>),
     request |-> JDict([httpMethod |-> JStr(<<"G","E","T">>),
     url |-> JStr(<<"u">>)]),
     response |-> JDict([httpMethod |-> JStr(<<"G","E","T">>),
     responseCode |-> JInt(404),
     responseBody |-> JStr(<<"N","o","t"," ","f","o","u","n","d">>)])])],
  [rule |-> FP_RULE.IDOR_ADMIN,
   fuzzers |-> {<<"I","n","s","e","c","u","r","e","D","i","r","e","c","t","O","b","j","e","c","t","R","e","f","e","r","e","n","c","e","s">>},
   rec |-> JDict([testId |-> JStr(<<"T","e","s","t"," ","1">>),
     traceId |-> JStr(<<"t">>), scenario |-> JStr(<<"s">>),
     expectedResult |-> JStr(<<"e">>),
     result |-> JStr(<<"e","r","r","o","r">>),
     fuzzer |-> JStr(<<"I","n","s","e","c","u","r","e","D","i","r","e","c","t","O","b","j","e","c","t","R","e","f","e","r","e","n","c","e","s">>),
     path |-> JStr(<<"/","a","d","m","i","n","/","x">>),
     server |-> JStr(<<"h">>),
     request |-> JDict([httpMethod |-> JStr(<<"G","E","T">>),
     url |-> JStr(<<"u">>)]),
     response |-> JDict([httpMethod |-> JStr(<<"G","E","T">>),
     responseCode |-> JInt(200)])])],
  [rule |-> FP_RULE.IDOR_LIST,
   fuzzers |-> {<<"I","n","s","e","c","u","r","e","D","i","r","e","c","t","O","b","j","e","c","t","R","e","f","e","r","e","n","c","e","s">>},
   rec |-> JDict([testId |-> JStr(<<"T","e","s","t"," ","1">>),
     traceId |-> JStr(<<"t">>), scenario |-> JStr(<<"s">>),
     expectedResult |-> JStr(<<"e">>),
     result |-> JStr(<<"e","r","r","o","r">>),
     fuzzer |-> JStr(<<"I","n","s","e","c","u","r","e","D","i","r","e","c","t","O","b","j","e","c","t","R","e","f","e","r","e","n","c","e","s">>),
     path |-> JStr(<<"/","a","d","d","o","n","s">>),
     server |-> JStr(<<"h">>),
     request |-> JDict([httpMethod |-> JStr(<<"G","E","T">>),
     url |-> JStr(<<"u">>)]),
     response |-> JDict([httpMethod |-> JStr(<<"G","E","T">>),
     responseCode |-> JInt(200)])])],
  [rule |-> FP_RULE.IDOR_OPTIONAL,
   fuzzers |-> {<<"I","n","s","e","c","u","r","e","D","i","r","e","c","t","O","b","j","e","c","t","R","e","f","e","r","e","n","c","e","s">>},
   rec |-> JDict([testId |-> JStr(<<"T","e","s","t"," ","1">>),
     traceId |-> JStr(<<"t">>),
     scenario |-> JStr(<<"A","d","d","o","n","_","I","D">>),
     expectedResult |-> JStr(<<"e">>),
     result |-> JStr(<<"e","r","r","o","r">>),
     fuzzer |-> JStr(<<"I","n","s","e","c","u","r","e","D","i","r","e","c","t","O","b","j","e","c","t","R","e","f","e","r","e","n","c","e","s">>),
     path |-> JStr(<<"/","a">>), server |-> JStr(<<"h">>),
     request |-> JDict([httpMethod |-> JStr(<<"P","O","S","T">>),
     url |-> JStr(<<"u">>)]),
     response |-> JDict([httpMethod |-> JStr(<<"P","O","S","T">>),
     responseCode |-> JInt(201)])])],
  [rule |-> FP_RULE.HTTP_METHODS,
   fuzzers |-> {<<"H","t","t","p","M","e","t","h","o","d","s">>,
     <<"N","o","n","R","e","s","t","H","t","t","p","M","e","t","h","o","d","s">>,
     <<"C","u","s","t","o","m","H","t","t","p","M","e","t","h","o","d","s">>},
   rec |-> JDict([testId |-> JStr(<<"T","e","s","t"," ","1">>),
     traceId |-> JStr(<<"t">>), scenario |-> JStr(<<"s">>),
     expectedResult |-> JStr(<<"e">>),
     result |-> JStr(<<"e","r","r","o","r">>),
     fuzzer |-> JStr(<<"H","t","t","p","M","e","t","h","o","d","s">>),
     path |-> JStr(<<"/","a">>), server |-> JStr(<<"h">>),
     request |-> JDict([httpMethod |-> JStr(<<"G","E","T">>),
     url |-> JStr(<<"u">>)]),
     response |-> JDict([httpMethod |-> JStr(<<"G","E","T">>),
     responseCode |-> JInt(405)])])],
  [rule |-> FP_RULE.RESPONSE_CONTRACT,
   fuzzers |-> {<<"R","e","s","p","o","n","s","e","H","e","a","d","e","r","s","M","a","t","c","h","C","o","n","t","r","a","c","t","H","e","a","d","e","r","s">>,
     <<"R","e","s","p","o","n","s","e","C","o","n","t","e","n","t","T","y","p","e","M","a","t","c","h","e","s","C","o","n","t","r","a","c","t">>},
   rec |-> JDict([testId |-> JStr(<<"T","e","s","t"," ","1">>),
     traceId |-> JStr(<<"t">>), scenario |-> JStr(<<"s">>),
     expectedResult |-> JStr(<<"e">>),
     result |-> JStr(<<"e","r","r","o","r">>),
     fuzzer |-> JStr(<<"R","e","s","p","o","n","s","e","H","e","a","d","e","r","s","M","a","t","c","h","C","o","n","t","r","a","c","t","H","e","a","d","e","r","s">>),
     path |-> JStr(<<"/","a">>), server |-> JStr(<<"h">>),
     request |-> JDict([httpMethod |-> JStr(<<"G","E","T">>),
     url |-> JStr(<<"u">>)]),
     response |-> JDict([httpMethod |-> JStr(<<"G","E","T">>),
     responseCode |-> JInt(200)])])],
  [rule |-> FP_RULE.CONFLICT_409,
   fuzzers |-> {},
   rec |-> JDict([testId |-> JStr(<<"T","e","s","t"," ","1">>),
     traceId |-> JStr(<<"t">>), scenario |-> JStr(<<"s">>),
     expectedResult |-> JStr(<<"e">>),
     result |-> JStr(<<"e","r","r","o","r">>), fuzzer |-> JStr(<<"Z","Z">>),
     path |-> JStr(<<"/","a","d","m","i","n","/","g","r","o","u","p","s">>),
     server |-> JStr(<<"h">>),
     request |-> JDict([httpMethod |-> JStr(<<"P","O","S","T">>),
     url |-> JStr(<<"u">>)]),
     response |-> JDict([httpMethod |-> JStr(<<"P","O","S","T">>),
     responseCode |-> JInt(409)])])],
  [rule |-> FP_RULE.CONTENT_TYPE_GO_HTTP,
   fuzzers |-> {},
   rec |-> JDict([testId |-> JStr(<<"T","e","s","t"," ","1">>),
     traceId |-> JStr(<<"t">>), scenario |-> JStr(<<"s">>),
     expectedResult |-> JStr(<<"e">>),
     result |-> JStr(<<"e","r","r","o","r">>), fuzzer |-> JStr(<<"Z","Z">>),
     path |-> JStr(<<"/","a">>), server |-> JStr(<<"h">>),
     request |-> JDict([httpMethod |-> JStr(<<"G","E","T">>),
     url |-> JStr(<<"u">>)]),
     response |-> JDict([httpMethod |-> JStr(<<"G","E","T">>),
     responseCode |-> JInt(400),
     responseContentType |-> JStr(<<"t","e","x","t","/","p","l","a","i","n">>)]),
     resultReason |-> JStr(<<"C","o","n","t","e","n","t"," ","t","y","p","e"," ","n","o","t"," ","m","a","t","c","h","i","n","g">>)])],
  [rule |-> FP_RULE.INJECTION_JSON_API,
   fuzzers |-> {<<"X","s","s","I","n","j","e","c","t","i","o","n","I","n","S","t","r","i","n","g","F","i","e","l","d","s">>,
     <<"N","o","S","q","l","I","n","j","e","c","t","i","o","n","I","n","S","t","r","i","n","g","F","i","e","l","d","s">>,
     <<"C","o","m","m","a","n","d","I","n","j","e","c","t","i","o","n","I","n","S","t","r","i","n","g","F","i","e","l","d","s">>,
     <<"S","q","l","I","n","j","e","c","t","i","o","n","I","n","S","t","r","i","n","g","F","i","e","l","d","s">>},
   rec |-> JDict([testId |-> JStr(<<"T","e","s","t"," ","1">>),
     traceId |-> JStr(<<"t">>), scenario |-> JStr(<<"s">>),
     expectedResult |-> JStr(<<"e">>),
     result |-> JStr(<<"e","r","r","o","r">>),
     fuzzer |-> JStr(<<"S","q","l","I","n","j","e","c","t","i","o","n","I","n","S","t","r","i","n","g","F","i","e","l","d","s">>),
     path |-> JStr(<<"/","a">>), server |-> JStr(<<"h">>),
     request |-> JDict([httpMethod |-> JStr(<<"P","O","S","T">>),
     url |-> JStr(<<"u">>)]),
     response |-> JDict([httpMethod |-> JStr(<<"P","O","S","T">>),
     responseCode |-> JInt(200)]),
     resultReason |-> JStr(<<"R","e","f","l","e","c","t","e","d">>)])],
  [rule |-> FP_RULE.INJECTION_JSON_API,
   fuzzers |-> {<<"N","o","S","q","l","I","n","j","e","c","t","i","o","n","I","n","S","t","r","i","n","g","F","i","e","l","d","s">>},
   rec |-> JDict([testId |-> JStr(<<"T","e","s","t"," ","1">>),
     traceId |-> JStr(<<"t">>), scenario |-> JStr(<<"s">>),
     expectedResult |-> JStr(<<"e">>),
     result |-> JStr(<<"e","r","r","o","r">>),
     fuzzer |-> JStr(<<"N","o","S","q","l","I","n","j","e","c","t","i","o","n","I","n","S","t","r","i","n","g","F","i","e","l","d","s">>),
     path |-> JStr(<<"/","a">>), server |-> JStr(<<"h">>),
     request |-> JDict([httpMethod |-> JStr(<<"P","O","S","T">>),
     url |-> JStr(<<"u">>)]),
     response |-> JDict([httpMethod |-> JStr(<<"P","O","S","T">>),
     responseCode |-> JInt(200)]),
     resultReason |-> JStr(<<"D","e","t","e","c","t","e","d">>)])],
  [rule |-> FP_RULE.XSS_QUERY_PARAMS,
   fuzzers |-> {<<"X","s","s","I","n","j","e","c","t","i","o","n","I","n","S","t","r","i","n","g","F","i","e","l","d","s">>},
   rec |-> JDict([testId |-> JStr(<<"T","e","s","t"," ","1">>),
     traceId |-> JStr(<<"t">>), scenario |-> JStr(<<"s">>),
     expectedResult |-> JStr(<<"e">>),
     result |-> JStr(<<"e","r","r","o","r">>),
     fuzzer |-> JStr(<<"X","s","s","I","n","j","e","c","t","i","o","n","I","n","S","t","r","i","n","g","F","i","e","l","d","s">>),
     path |-> JStr(<<"/","a">>), server |-> JStr(<<"h">>),
     request |-> JDict([httpMethod |-> JStr(<<"G","E","T">>),
     url |-> JStr(<<"u">>)]),
     response |-> JDict([httpMethod |-> JStr(<<"G","E","T">>),
     responseCode |-> JInt(200)])])],
  [rule |-> FP_RULE.HEADER_VALIDATION,
   fuzzers |-> {<<"A","c","c","e","p","t","L","a","n","g","u","a","g","e","H","e","a","d","e","r","s">>,
     <<"U","n","s","u","p","p","o","r","t","e","d","C","o","n","t","e","n","t","T","y","p","e","s","H","e","a","d","e","r","s">>,
     <<"D","u","m","m","y","C","o","n","t","e","n","t","L","e","n","g","t","h","H","e","a","d","e","r","s">>,
     <<"L","a","r","g","e","N","u","m","b","e","r","O","f","R","a","n","d","o","m","A","l","p","h","a","n","u","m","e","r","i","c","H","e","a","d","e","r","s">>,
     <<"D","u","p","l","i","c","a","t","e","H","e","a","d","e","r","s">>,
     <<"E","x","t","r","a","H","e","a","d","e","r","s">>},
   rec |-> JDict([testId |-> JStr(<<"T","e","s","t"," ","1">>),
     traceId |-> JStr(<<"t">>), scenario |-> JStr(<<"s">>),
     expectedResult |-> JStr(<<"e">>),
     result |-> JStr(<<"e","r","r","o","r">>),
     fuzzer |-> JStr(<<"E","x","t","r","a","H","e","a","d","e","r","s">>),
     path |-> JStr(<<"/","a">>), server |-> JStr(<<"h">>),
     request |-> JDict([httpMethod |-> JStr(<<"G","E","T">>),
     url |-> JStr(<<"u">>)]),
     response |-> JDict([httpMethod |-> JStr(<<"G","E","T">>),
     responseCode |-> JInt(400)])])],
  [rule |-> FP_RULE.LEADING_ZEROS,
   fuzzers |-> {<<"P","r","e","f","i","x","N","u","m","b","e","r","s","W","i","t","h","Z","e","r","o","F","i","e","l","d","s">>},
   rec |-> JDict([testId |-> JStr(<<"T","e","s","t"," ","1">>),
     traceId |-> JStr(<<"t">>), scenario |-> JStr(<<"s">>),
     expectedResult |-> JStr(<<"e">>),
     result |-> JStr(<<"e","r","r","o","r">>),
     fuzzer |-> JStr(<<"P","r","e","f","i","x","N","u","m","b","e","r","s","W","i","t","h","Z","e","r","o","F","i","e","l","d","s">>),
     path |-> JStr(<<"/","a">>), server |-> JStr(<<"h">>),
     request |-> JDict([httpMethod |-> JStr(<<"G","E","T">>),
     url |-> JStr(<<"u">>)]),
     response |-> JDict([httpMethod |-> JStr(<<"G","E","T">>),
     responseCode |-> JInt(400)])])],
  [rule |-> FP_RULE.CONNECTION_ERROR,
   fuzzers |-> {},
   rec |-> JDict([testId |-> JStr(<<"T","e","s","t"," ","1">>),
     traceId |-> JStr(<<"t">>), scenario |-> JStr(<<"s">>),
     expectedResult |-> JStr(<<"e">>),
     result |-> JStr(<<"e","r","r","o","r">>), fuzzer |-> JStr(<<"Z","Z">>),
     path |-> JStr(<<"/","a">>), server |-> JStr(<<"h">>),
     request |-> JDict([httpMethod |-> JStr(<<"G","E","T">>),
     url |-> JStr(<<"u">>)]),
     response |-> JDict([httpMethod |-> JStr(<<"G","E","T">>),
     responseCode |-> JInt(999)])])],
  [rule |-> FP_RULE.STRING_BOUNDARY_OPTIONAL,
   fuzzers |-> {<<"S","t","r","i","n","g","F","i","e","l","d","s","L","e","f","t","B","o","u","n","d","a","r","y">>},
   rec |-> JDict([testId |-> JStr(<<"T","e","s","t"," ","1">>),
     traceId |-> JStr(<<"t">>),
     scenario |-> JStr(<<"x"," ","i","s"," ","r","e","q","u","i","r","e","d"," ","[","F","A","L","S","E","]">>),
     expectedResult |-> JStr(<<"e">>),
     result |-> JStr(<<"e","r","r","o","r">>),
     fuzzer |-> JStr(<<"S","t","r","i","n","g","F","i","e","l","d","s","L","e","f","t","B","o","u","n","d","a","r","y">>),
     path |-> JStr(<<"/","a">>), server |-> JStr(<<"h">>),
     request |-> JDict([httpMethod |-> JStr(<<"G","E","T">>),
     url |-> JStr(<<"u">>)]),
     response |-> JDict([httpMethod |-> JStr(<<"G","E","T">>),
     responseCode |-> JInt(200)])])],
  [rule |-> FP_RULE.TRANSFER_ENCODING,
   fuzzers |-> {<<"D","u","m","m","y","T","r","a","n","s","f","e","r","E","n","c","o","d","i","n","g","H","e","a","d","e","r","s">>},
   rec |-> JDict([testId |-> JStr(<<"T","e","s","t"," ","1">>),
     traceId |-> JStr(<<"t">>), scenario |-> JStr(<<"s">>),
     expectedResult |-> JStr(<<"e">>),
     result |-> JStr(<<"e","r","r","o","r">>),
     fuzzer |-> JStr(<<"D","u","m","m","y","T","r","a","n","s","f","e","r","E","n","c","o","d","i","n","g","H","e","a","d","e","r","s">>),
     path |-> JStr(<<"/","a">>), server |-> JStr(<<"h">>),
     request |-> JDict([httpMethod |-> JStr(<<"G","E","T">>),
     url |-> JStr(<<"u">>)]),
     response |-> JDict([httpMethod |-> JStr(<<"G","E","T">>),
     responseCode |-> JInt(501)])])],
  [rule |-> FP_RULE.DELETED_RESOURCE_LIST,
   fuzzers |-> {<<"C","h","e","c","k","D","e","l","e","t","e","d","R","e","s","o","u","r","c","e","s","N","o","t","A","v","a","i","l","a","b","l","e">>},
   rec |-> JDict([testId |-> JStr(<<"T","e","s","t"," ","1">>),
     traceId |-> JStr(<<"t">>), scenario |-> JStr(<<"s">>),
     expectedResult |-> JStr(<<"e">>),
     result |-> JStr(<<"e","r","r","o","r">>),
     fuzzer |-> JStr(<<"C","h","e","c","k","D","e","l","e","t","e","d","R","e","s","o","u","r","c","e","s","N","o","t","A","v","a","i","l","a","b","l","e">>),
     path |-> JStr(<<"/","m","e","/","c","l","i","e","n","t","_","c","r","e","d","e","n","t","i","a","l","s">>),
     server |-> JStr(<<"h">>),
     request |-> JDict([httpMethod |-> JStr(<<"G","E","T">>),
     url |-> JStr(<<"u">>)]),
     response |-> JDict([httpMethod |-> JStr(<<"G","E","T">>),
     responseCode |-> JInt(200)])])],
  [rule |-> FP_RULE.FORM_URLENCODED_JSON_TEST,
   fuzzers |-> {<<"M","a","l","f","o","r","m","e","d","J","s","o","n">>,
     <<"D","u","p","l","i","c","a","t","e","K","e","y","s","F","i","e","l","d","s">>,
     <<"R","a","n","d","o","m","D","u","m","m","y","I","n","v","a","l","i","d","J","s","o","n","B","o","d","y">>},
   rec |-> JDict([testId |-> JStr(<<"T","e","s","t"," ","1">>),
     traceId |-> JStr(<<"t">>), scenario |-> JStr(<<"s">>),
     expectedResult |-> JStr(<<"e">>),
     result |-> JStr(<<"e","r","r","o","r">>),
     fuzzer |-> JStr(<<"M","a","l","f","o","r","m","e","d","J","s","o","n">>),
     path |-> JStr(<<"/","a">>), server |-> JStr(<<"h">>),
     request |-> JDict([httpMethod |-> JStr(<<"G","E","T">>),
     url |-> JStr(<<"u">>),
     headers |-> JList(<<JDict([key |-> JStr(<<"C","o","n","t","e","n","t","-","T","y","p","e">>),
     value |-> JStr(<<"a","p","p","l","i","c","a","t","i","o","n","/","x","-","w","w","w","-","f","o","r","m","-","u","r","l","e","n","c","o","d","e","d">>)])>>)]),
     response |-> JDict([httpMethod |-> JStr(<<"G","E","T">>),
     responseCode |-> JInt(415)])])],
  [rule |-> FP_RULE.DELETE_ME_CHALLENGE,
   fuzzers |-> {},
   rec |-> JDict([testId |-> JStr(<<"T","e","s","t"," ","1">>),
     traceId |-> JStr(<<"t">>), scenario |-> JStr(<<"s">>),
     expectedResult |-> JStr(<<"e">>),
     result |-> JStr(<<"e","r","r","o","r">>), fuzzer |-> JStr(<<"Z","Z">>),
     path |-> JStr(<<"/","m","e">>), server |-> JStr(<<"h">>),
     request |-> JDict([httpMethod |-> JStr(<<"D","E","L","E","T","E">>),
     url |-> JStr(<<"u">>)]),
     response |-> JDict([httpMethod |-> JStr(<<"D","E","L","E","T","E">>),
     responseCode |-> JInt(400)])])],
  [rule |-> FP_RULE.ADMIN_SETTINGS_RESERVED,
   fuzzers |-> {},
   rec |-> JDict([testId |-> JStr(<<"T","e","s","t"," ","1">>),
     traceId |-> JStr(<<"t">>), scenario |-> JStr(<<"s">>),
     expectedResult |-> JStr(<<"e">>),
     result |-> JStr(<<"e","r","r","o","r">>), fuzzer |-> JStr(<<"Z","Z">>),
     path |-> JStr(<<"/","a","d","m","i","n","/","s","e","t","t","i","n","g","s","/","x">>),
     server |-> JStr(<<"h">>),
     request |-> JDict([httpMethod |-> JStr(<<"G","E","T">>),
     url |-> JStr(<<"u">>)]),
     response |-> JDict([httpMethod |-> JStr(<<"G","E","T">>),
     responseCode |-> JInt(400),
     responseBody |-> JStr(<<"R","e","s","e","r","v","e","d">>)])])],
  [rule |-> FP_RULE.PATH_PARAM_VALIDATION,
   fuzzers |-> {},
   rec |-> JDict([testId |-> JStr(<<"T","e","s","t"," ","1">>),
     traceId |-> JStr(<<"t">>), scenario |-> JStr(<<"s">>),
     expectedResult |-> JStr(<<"e">>),
     result |-> JStr(<<"e","r","r","o","r">>), fuzzer |-> JStr(<<"Z","Z">>),
     path |-> JStr(<<"/","a">>), server |-> JStr(<<"h">>),
     request |-> JDict([httpMethod |-> JStr(<<"G","E","T">>),
     url |-> JStr(<<"u">>)]),
     response |-> JDict([httpMethod |-> JStr(<<"G","E","T">>),
     responseCode |-> JInt(400),
     responseBody |-> JStr(<<"p","a","r","a","m","e","t","e","r"," ","d","o","e","s","n","'","t"," ","m","a","t","c","h"," ","t","h","e"," ","r","e","g","u","l","a","r"," ","e","x","p","r","e","s","s","i","o","n">>)])])],
  [rule |-> FP_RULE.EMPTY_BODY_REQUIRED,
   fuzzers |-> {<<"E","m","p","t","y","J","s","o","n","B","o","d","y">>},
   rec |-> JDict([testId |-> JStr(<<"T","e","s","t"," ","1">>),
     traceId |-> JStr(<<"t">>), scenario |-> JStr(<<"s">>),
     expectedResult |-> JStr(<<"e">>),
     result |-> JStr(<<"e","r","r","o","r">>),
     fuzzer |-> JStr(<<"E","m","p","t","y","J","s","o","n","B","o","d","y">>),
     path |-> JStr(<<"/","a">>), server |-> JStr(<<"h">>),
     request |-> JDict([httpMethod |-> JStr(<<"G","E","T">>),
     url |-> JStr(<<"u">>)]),
     response |-> JDict([httpMethod |-> JStr(<<"G","E","T">>),
     responseCode |-> JInt(400),
     responseBody |-> JStr(<<"x"," ","i","s"," ","r","e","q","u","i","r","e","d">>)])])],
  [rule |-> FP_RULE.EMPTY_PATH_PARAM,
   fuzzers |-> {<<"R","a","n","d","o","m","R","e","s","o","u","r","c","e","s">>},
   rec |-> JDict([testId |-> JStr(<<"T","e","s","t"," ","1">>),
     traceId |-> JStr(<<"t">>), scenario |-> JStr(<<"s">>),
     expectedResult |-> JStr(<<"e">>),
     result |-> JStr(<<"e","r","r","o","r">>),
     fuzzer |-> JStr(<<"R","a","n","d","o","m","R","e","s","o","u","r","c","e","s">>),
     path |-> JStr(<<"/","a">>), server |-> JStr(<<"h">>),
     request |-> JDict([httpMethod |-> JStr(<<"G","E","T">>),
     url |-> JStr(<<"u","/">>)]),
     response |-> JDict([httpMethod |-> JStr(<<"G","E","T">>),
     responseCode |-> JInt(405)])])],
  [rule |-> FP_RULE.EMPTY_JSON_BODY_NOT_FOUND,
   fuzzers |-> {<<"E","m","p","t","y","J","s","o","n","B","o","d","y">>},
   rec |-> JDict([testId |-> JStr(<<"T","e","s","t"," ","1">>),
     traceId |-> JStr(<<"t">>), scenario |-> JStr(<<"s">>),
     expectedResult |-> JStr(<<"e">>),
     result |-> JStr(<<"e","r","r","o","r">>),
     fuzzer |-> JStr(<<"E","m","p","t","y","J","s","o","n","B","o","d","y">>),
     path |-> JStr(<<"/","a">>), server |-> JStr(<<"h">>),
     request |-> JDict([httpMethod |-> JStr(<<"G","E","T">>),
     url |-> JStr(<<"u">>)]),
     response |-> JDict([httpMethod |-> JStr(<<"G","E","T">>),
     responseCode |-> JInt(404),
     jsonBody |-> JDict([error_description |-> JStr(<<"N","o"," ","s","u","c","h">>)])])])],
  [rule |-> FP_RULE.STRING_BOUNDARY_EMPTY_PATH,
   fuzzers |-> {<<"S","t","r","i","n","g","F","i","e","l","d","s","L","e","f","t","B","o","u","n","d","a","r","y">>},
   rec |-> JDict([testId |-> JStr(<<"T","e","s","t"," ","1">>),
     traceId |-> JStr(<<"t">>), scenario |-> JStr(<<"s">>),
     expectedResult |-> JStr(<<"e">>),
     result |-> JStr(<<"e","r","r","o","r">>),
     fuzzer |-> JStr(<<"S","t","r","i","n","g","F","i","e","l","d","s","L","e","f","t","B","o","u","n","d","a","r","y">>),
     path |-> JStr(<<"/","a">>), server |-> JStr(<<"h">>),
     request |-> JDict([httpMethod |-> JStr(<<"G","E","T">>),
     url |-> JStr(<<"a","/","/","b">>)]),
     response |-> JDict([httpMethod |-> JStr(<<"G","E","T">>),
     responseCode |-> JInt(405)])])],
  [rule |-> FP_RULE.NO_BODY_ENDPOINT,
   fuzzers |-> {},
   rec |-> JDict([testId |-> JStr(<<"T","e","s","t"," ","1">>),
     traceId |-> JStr(<<"t">>), scenario |-> JStr(<<"s">>),
     expectedResult |-> JStr(<<"e">>),
     result |-> JStr(<<"e","r","r","o","r">>), fuzzer |-> JStr(<<"Z","Z">>),
     path |-> JStr(<<"/","a">>), server |-> JStr(<<"h">>),
     request |-> JDict([httpMethod |-> JStr(<<"G","E","T">>),
     url |-> JStr(<<"u">>)]),
     response |-> JDict([httpMethod |-> JStr(<<"G","E","T">>),
     responseCode |-> JInt(400),
     jsonBody |-> JDict([error_description |-> JStr(<<"d","o","e","s"," ","n","o","t"," ","a","c","c","e","p","t"," ","a"," ","r","e","q","u","e","s","t"," ","b","o","d","y">>)])])])],
  [rule |-> FP_RULE.SURVEY_VALIDATION_400,
   fuzzers |-> {},
   rec |-> JDict([testId |-> JStr(<<"T","e","s","t"," ","1">>),
     traceId |-> JStr(<<"t">>), scenario |-> JStr(<<"s">>),
     expectedResult |-> JStr(<<"e">>),
     result |-> JStr(<<"e","r","r","o","r">>), fuzzer |-> JStr(<<"Z","Z">>),
     path |-> JStr(<<"/","a","d","m","i","n","/","s","u","r","v","e","y","s">>),
     server |-> JStr(<<"h">>),
     request |-> JDict([httpMethod |-> JStr(<<"P","O","S","T">>),
     url |-> JStr(<<"u">>)]),
     response |-> JDict([httpMethod |-> JStr(<<"P","O","S","T">>),
     responseCode |-> JInt(400)]),
     resultReason |-> JStr(<<"U","n","e","x","p","e","c","t","e","d"," ","r","e","s","p","o","n","s","e"," ","c","o","d","e">>)])],
  [rule |-> FP_RULE.SURVEY_DELETE_CONFLICT_409,
   fuzzers |-> {},
   rec |-> JDict([testId |-> JStr(<<"T","e","s","t"," ","1">>),
     traceId |-> JStr(<<"t">>), scenario |-> JStr(<<"s">>),
     expectedResult |-> JStr(<<"e">>),
     result |-> JStr(<<"e","r","r","o","r">>), fuzzer |-> JStr(<<"Z","Z">>),
     path |-> JStr(<<"/","a","d","m","i","n","/","s","u","r","v","e","y","s","/","1">>),
     server |-> JStr(<<"h">>),
     request |-> JDict([httpMethod |-> JStr(<<"D","E","L","E","T","E">>),
     url |-> JStr(<<"u">>)]),
     response |-> JDict([httpMethod |-> JStr(<<"D","E","L","E","T","E">>),
     responseCode |-> JInt(409)])])],
  [rule |-> FP_RULE.JSONPATCH_INVALID_400,
   fuzzers |-> {},
   rec |-> JDict([testId |-> JStr(<<"T","e","s","t"," ","1">>),
     traceId |-> JStr(<<"t">>), scenario |-> JStr(<<"s">>),
     expectedResult |-> JStr(<<"e">>),
     result |-> JStr(<<"e","r","r","o","r">>), fuzzer |-> JStr(<<"Z","Z">>),
     path |-> JStr(<<"/","a">>), server |-> JStr(<<"h">>),
     request |-> JDict([httpMethod |-> JStr(<<"P","A","T","C","H">>),
     url |-> JStr(<<"u">>)]),
     response |-> JDict([httpMethod |-> JStr(<<"P","A","T","C","H">>),
     responseCode |-> JInt(400)]),
     resultReason |-> JStr(<<"U","n","e","x","p","e","c","t","e","d"," ","r","e","s","p","o","n","s","e"," ","c","o","d","e">>)])],
  [rule |-> FP_RULE.SURVEY_RESPONSE_VALIDATION_400,
   fuzzers |-> {},
   rec |-> JDict([testId |-> JStr(<<"T","e","s","t"," ","1">>),
     traceId |-> JStr(<<"t">>), scenario |-> JStr(<<"s">>),
     expectedResult |-> JStr(<<"e">>),
     result |-> JStr(<<"e","r","r","o","r">>), fuzzer |-> JStr(<<"Z","Z">>),
     path |-> JStr(<<"/","x","/","s","u","r","v","e","y","_","r","e","s","p","o","n","s","e","s">>),
     server |-> JStr(<<"h">>),
     request |-> JDict([httpMethod |-> JStr(<<"P","U","T">>),
     url |-> JStr(<<"u">>)]),
     response |-> JDict([httpMethod |-> JStr(<<"P","U","T">>),
     responseCode |-> JInt(400)]),
     resultReason |-> JStr(<<"U","n","e","x","p","e","c","t","e","d"," ","r","e","s","p","o","n","s","e"," ","c","o","d","e">>)])],
  [rule |-> FP_RULE.METADATA_BULK_VALIDATION_400,
   fuzzers |-> {},
   rec |-> JDict([testId |-> JStr(<<"T","e","s","t"," ","1">>),
     traceId |-> JStr(<<"t">>), scenario |-> JStr(<<"s">>),
     expectedResult |-> JStr(<<"e">>),
     result |-> JStr(<<"e","r","r","o","r">>), fuzzer |-> JStr(<<"Z","Z">>),
     path |-> JStr(<<"/","x","/","m","e","t","a","d","a","t","a","/","b","u","l","k">>),
     server |-> JStr(<<"h">>),
     request |-> JDict([httpMethod |-> JStr(<<"G","E","T">>),
     url |-> JStr(<<"u">>)]),
     response |-> JDict([httpMethod |-> JStr(<<"G","E","T">>),
     responseCode |-> JInt(400)]),
     resultReason |-> JStr(<<"U","n","e","x","p","e","c","t","e","d"," ","r","e","s","p","o","n","s","e"," ","c","o","d","e">>)])],
  [rule |-> FP_RULE.METADATA_LIST_RANDOM_200,
   fuzzers |-> {<<"R","a","n","d","o","m","R","e","s","o","u","r","c","e","s">>},
   rec |-> JDict([testId |-> JStr(<<"T","e","s","t"," ","1">>),
     traceId |-> JStr(<<"t">>), scenario |-> JStr(<<"s">>),
     expectedResult |-> JStr(<<"e">>),
     result |-> JStr(<<"e","r","r","o","r">>),
     fuzzer |-> JStr(<<"R","a","n","d","o","m","R","e","s","o","u","r","c","e","s">>),
     path |-> JStr(<<"/","x","/","m","e","t","a","d","a","t","a">>),
     server |-> JStr(<<"h">>),
     request |-> JDict([httpMethod |-> JStr(<<"G","E","T">>),
     url |-> JStr(<<"u">>)]),
     response |-> JDict([httpMethod |-> JStr(<<"G","E","T">>),
     responseCode |-> JInt(200)])])],
  [rule |-> FP_RULE.SCHEMA_MISMATCH_VALID_ERROR,
   fuzzers |-> {},
   rec |-> JDict([testId |-> JStr(<<"T","e","s","t"," ","1">>),
     traceId |-> JStr(<<"t">>), scenario |-> JStr(<<"s">>),
     expectedResult |-> JStr(<<"e">>), result |-> JStr(<<"w","a","r","n">>),
     fuzzer |-> JStr(<<"Z","Z">>), path |-> JStr(<<"/","a">>),
     server |-> JStr(<<"h">>),
     request |-> JDict([httpMethod |-> JStr(<<"G","E","T">>),
     url |-> JStr(<<"u">>)]),
     response |-> JDict([httpMethod |-> JStr(<<"G","E","T">>),
     responseCode |-> JInt(500), jsonBody |-> JDict([error |-> JStr(<<"e">>),
     error_description |-> JStr(<<"d">>)])]),
     resultReason |-> JStr(<<"N","o","t"," ","m","a","t","c","h","i","n","g"," ","r","e","s","p","o","n","s","e"," ","s","c","h","e","m","a">>)])],
  [rule |-> FP_RULE.SSRF_VALIDATION_400,
   fuzzers |-> {<<"S","S","R","F","I","n","U","r","l","F","i","e","l","d","s">>,
     <<"S","s","r","f","I","n","j","e","c","t","i","o","n","I","n","S","t","r","i","n","g","F","i","e","l","d","s">>},
   rec |-> JDict([testId |-> JStr(<<"T","e","s","t"," ","1">>),
     traceId |-> JStr(<<"t">>), scenario |-> JStr(<<"s">>),
     expectedResult |-> JStr(<<"e">>),
     result |-> JStr(<<"e","r","r","o","r">>),
     fuzzer |-> JStr(<<"S","S","R","F","I","n","U","r","l","F","i","e","l","d","s">>),
     path |-> JStr(<<"/","a">>), server |-> JStr(<<"h">>),
     request |-> JDict([httpMethod |-> JStr(<<"G","E","T">>),
     url |-> JStr(<<"u">>)]),
     response |-> JDict([httpMethod |-> JStr(<<"G","E","T">>),
     responseCode |-> JInt(400)])])],
  [rule |-> FP_RULE.SURVEY_EXAMPLES_CONFLICT_409,
   fuzzers |-> {<<"E","x","a","m","p","l","e","s","F","i","e","l","d","s">>},
   rec |-> JDict([testId |-> JStr(<<"T","e","s","t"," ","1">>),
     traceId |-> JStr(<<"t">>), scenario |-> JStr(<<"s">>),
     expectedResult |-> JStr(<<"e">>),
     result |-> JStr(<<"e","r","r","o","r">>),
     fuzzer |-> JStr(<<"E","x","a","m","p","l","e","s","F","i","e","l","d","s">>),
     path |-> JStr(<<"/","a","d","m","i","n","/","s","u","r","v","e","y","s">>),
     server |-> JStr(<<"h">>),
     request |-> JDict([httpMethod |-> JStr(<<"G","E","T">>),
     url |-> JStr(<<"u">>)]),
     response |-> JDict([httpMethod |-> JStr(<<"G","E","T">>),
     responseCode |-> JInt(409)])])],
  [rule |-> FP_RULE.SURVEY_METADATA_CONFLICT_409,
   fuzzers |-> {},
   rec |-> JDict([testId |-> JStr(<<"T","e","s","t"," ","1">>),
     traceId |-> JStr(<<"t">>), scenario |-> JStr(<<"s">>),
     expectedResult |-> JStr(<<"e">>),
     result |-> JStr(<<"e","r","r","o","r">>), fuzzer |-> JStr(<<"Z","Z">>),
     path |-> JStr(<<"/","a","d","m","i","n","/","s","u","r","v","e","y","s","/","1","/","m","e","t","a","d","a","t","a">>),
     server |-> JStr(<<"h">>),
     request |-> JDict([httpMethod |-> JStr(<<"P","O","S","T">>),
     url |-> JStr(<<"u">>)]),
     response |-> JDict([httpMethod |-> JStr(<<"P","O","S","T">>),
     responseCode |-> JInt(409)])])],
  [rule |-> FP_RULE.EMPTY_ARRAY_BODY_200,
   fuzzers |-> {<<"E","m","p","t","y","J","s","o","n","A","r","r","a","y","B","o","d","y">>},
   rec |-> JDict([testId |-> JStr(<<"T","e","s","t"," ","1">>),
     traceId |-> JStr(<<"t">>), scenario |-> JStr(<<"s">>),
     expectedResult |-> JStr(<<"e">>),
     result |-> JStr(<<"e","r","r","o","r">>),
     fuzzer |-> JStr(<<"E","m","p","t","y","J","s","o","n","A","r","r","a","y","B","o","d","y">>),
     path |-> JStr(<<"/","a">>), server |-> JStr(<<"h">>),
     request |-> JDict([httpMethod |-> JStr(<<"G","E","T">>),
     url |-> JStr(<<"u">>)]),
     response |-> JDict([httpMethod |-> JStr(<<"G","E","T">>),
     responseCode |-> JInt(200)])])],
  [rule |-> FP_RULE.SAML_ACS_NO_IDP,
   fuzzers |-> {},
   rec |-> JDict([testId |-> JStr(<<"T","e","s","t"," ","1">>),
     traceId |-> JStr(<<"t">>), scenario |-> JStr(<<"s">>),
     expectedResult |-> JStr(<<"e">>),
     result |-> JStr(<<"e","r","r","o","r">>), fuzzer |-> JStr(<<"Z","Z">>),
     path |-> JStr(<<"/","s","a","m","l","/","a","c","s">>),
     server |-> JStr(<<"h">>),
     request |-> JDict([httpMethod |-> JStr(<<"G","E","T">>),
     url |-> JStr(<<"u">>)]),
     response |-> JDict([httpMethod |-> JStr(<<"G","E","T">>),
     responseCode |-> JInt(400)])])],
  [rule |-> FP_RULE.SURVEY_RESPONSE_SCHEMA_ALLOF,
   fuzzers |-> {},
   rec |-> JDict([testId |-> JStr(<<"T","e","s","t"," ","1">>),
     traceId |-> JStr(<<"t">>), scenario |-> JStr(<<"s">>),
     expectedResult |-> JStr(<<"e">>), result |-> JStr(<<"w","a","r","n">>),
     fuzzer |-> JStr(<<"Z","Z">>),
     path |-> JStr(<<"/","x","/","s","u","r","v","e","y","_","r","e","s","p","o","n","s","e","s">>),
     server |-> JStr(<<"h">>),
     request |-> JDict([httpMethod |-> JStr(<<"G","E","T">>),
     url |-> JStr(<<"u">>)]),
     response |-> JDict([httpMethod |-> JStr(<<"G","E","T">>),
     responseCode |-> JInt(201), jsonBody |-> JDict([id |-> JStr(<<"i">>),
     survey_id |-> JStr(<<"s">>)])]),
     resultReason |-> JStr(<<"N","o","t"," ","m","a","t","c","h","i","n","g"," ","r","e","s","p","o","n","s","e"," ","s","c","h","e","m","a">>)])]
  >>

\* Records of shapes and values the rules may not expect: all pass
\* parse_json_file.
Malformed ==
  {
  JDict([testId |-> JStr(<<"T","e","s","t"," ","1">>),
    traceId |-> JStr(<<"t">>), scenario |-> JStr(<<"s">>),
    expectedResult |-> JStr(<<"e">>), result |-> JNull,
    fuzzer |-> JStr(<<"Z","Z">>), path |-> JStr(<<"/","a">>),
    server |-> JStr(<<"h">>),
    request |-> JDict([httpMethod |-> JStr(<<"G","E","T">>),
    url |-> JStr(<<"u">>)]),
    response |-> JDict([httpMethod |-> JStr(<<"G","E","T">>),
    responseCode |-> JInt(500)])]),
  JDict([testId |-> JStr(<<"T","e","s","t"," ","1">>),
    traceId |-> JStr(<<"t">>), scenario |-> JStr(<<"s">>),
    expectedResult |-> JStr(<<"e">>),
    result |-> JStr(<<"e","r","r","o","r">>), fuzzer |-> JStr(<<"Z","Z">>),
    path |-> JStr(<<"/","a">>), server |-> JStr(<<"h">>),
    request |-> JDict([httpMethod |-> JStr(<<"G","E","T">>),
    url |-> JStr(<<"u">>)]), response |-> JDict([responseCode |-> JInt(400),
    responseContentType |-> JNull]),
    resultReason |-> JStr(<<"C","o","n","t","e","n","t"," ","t","y","p","e"," ","n","o","t"," ","m","a","t","c","h","i","n","g">>)]),
  JDict([testId |-> JStr(<<"T","e","s","t"," ","1">>),
    traceId |-> JStr(<<"t">>), scenario |-> JStr(<<"s">>),
    expectedResult |-> JStr(<<"e">>),
    result |-> JStr(<<"e","r","r","o","r">>), fuzzer |-> JStr(<<"Z","Z">>),
    path |-> JStr(<<"/","a">>), server |-> JStr(<<"h">>),
    request |-> JDict([httpMethod |-> JStr(<<"G","E","T">>),
    url |-> JStr(<<"u">>)]),
    response |-> JDict([httpMethod |-> JStr(<<"G","E","T">>),
    responseCode |-> JInt(400), jsonBody |-> JList(<<JStr(<<"x">>)>>)])]),
  JDict([testId |-> JStr(<<"T","e","s","t"," ","1">>),
    traceId |-> JStr(<<"t">>), scenario |-> JStr(<<"s">>),
    expectedResult |-> JStr(<<"e">>),
    result |-> JStr(<<"e","r","r","o","r">>),
    fuzzer |-> JStr(<<"I","n","s","e","c","u","r","e","D","i","r","e","c","t","O","b","j","e","c","t","R","e","f","e","r","e","n","c","e","s">>),
    path |-> JStr(<<"/","a">>), server |-> JStr(<<"h">>),
    request |-> JList(<<JStr(<<"G","E","T">>)>>),
    response |-> JDict([httpMethod |-> JStr(<<"G","E","T">>),
    responseCode |-> JInt(200)])]),
  JDict([testId |-> JStr(<<"T","e","s","t"," ","1">>),
    traceId |-> JStr(<<"t">>), scenario |-> JStr(<<"s">>),
    expectedResult |-> JStr(<<"e">>),
    result |-> JStr(<<"e","r","r","o","r">>), fuzzer |-> JStr(<<"Z","Z">>),
    path |-> JStr(<<"/","a">>), server |-> JStr(<<"h">>),
    request |-> JDict([httpMethod |-> JStr(<<"G","E","T">>),
    url |-> JStr(<<"u">>)]), response |-> JList(<<>>)]),
  JDict([testId |-> JStr(<<"T","e","s","t"," ","1">>),
    traceId |-> JStr(<<"t">>), scenario |-> JStr(<<"s">>),
    expectedResult |-> JStr(<<"e">>),
    result |-> JStr(<<"e","r","r","o","r">>), fuzzer |-> JStr(<<"Z","Z">>),
    path |-> JStr(<<"/","a">>), server |-> JStr(<<"h">>),
    request |-> JDict([httpMethod |-> JStr(<<"G","E","T">>),
    url |-> JStr(<<"u">>)]),
    response |-> JDict([httpMethod |-> JStr(<<"G","E","T">>),
    responseCode |-> JInt(500)]), resultReason |-> JInt(5)]),
  JDict([testId |-> JStr(<<"T","e","s","t"," ","1">>),
    traceId |-> JStr(<<"t">>), scenario |-> JStr(<<"s">>),
    expectedResult |-> JStr(<<"e">>),
    result |-> JStr(<<"e","r","r","o","r">>),
    fuzzer |-> JStr(<<"M","a","l","f","o","r","m","e","d","J","s","o","n">>),
    path |-> JStr(<<"/","a">>), server |-> JStr(<<"h">>),
    request |-> JDict([httpMethod |-> JStr(<<"G","E","T">>),
    url |-> JStr(<<"u">>),
    headers |-> JList(<<JStr(<<"C","o","n","t","e","n","t","-","T","y","p","e">>)>>)]),
    response |-> JDict([httpMethod |-> JStr(<<"G","E","T">>),
    responseCode |-> JInt(415)])]),
  JDict([testId |-> JStr(<<"T","e","s","t"," ","1">>),
    traceId |-> JStr(<<"t">>), scenario |-> JStr(<<"s">>),
    expectedResult |-> JStr(<<"e">>),
    result |-> JStr(<<"e","r","r","o","r">>), fuzzer |-> JStr(<<"Z","Z">>),
    path |-> JStr(<<"/","a">>), server |-> JStr(<<"h">>),
    request |-> JDict([httpMethod |-> JStr(<<"G","E","T">>),
    url |-> JStr(<<"u">>)]),
    response |-> JDict([httpMethod |-> JStr(<<"G","E","T">>),
    responseCode |-> JInt(400), jsonBody |-> JStr(<<>>)])]),
  JDict([testId |-> JStr(<<"T","e","s","t"," ","1">>),
    traceId |-> JStr(<<"t">>), scenario |-> JStr(<<"s">>),
    expectedResult |-> JStr(<<"e">>),
    result |-> JStr(<<"e","r","r","o","r">>), fuzzer |-> JStr(<<"Z","Z">>),
    path |-> JStr(<<"/","a">>), server |-> JStr(<<"h">>),
    request |-> JDict([httpMethod |-> JStr(<<"G","E","T">>),
    url |-> JStr(<<"u">>)]),
    response |-> JDict([httpMethod |-> JStr(<<"G","E","T">>),
    responseCode |-> JInt(404)]), resultDetails |-> JNull,
    resultReason |-> JNull]),
  JDict([testId |-> JStr(<<"T","e","s","t"," ","1">>),
    traceId |-> JStr(<<"t">>), scenario |-> JStr(<<"s">>),
    expectedResult |-> JStr(<<"e">>),
    result |-> JStr(<<"e","r","r","o","r">>),
    fuzzer |-> JStr(<<"I","n","s","e","c","u","r","e","D","i","r","e","c","t","O","b","j","e","c","t","R","e","f","e","r","e","n","c","e","s">>),
    path |-> JNull, server |-> JStr(<<"h">>),
    request |-> JDict([httpMethod |-> JStr(<<"G","E","T">>),
    url |-> JStr(<<"u">>)]),
    response |-> JDict([httpMethod |-> JStr(<<"G","E","T">>),
    responseCode |-> JInt(200)])]),
  JDict([testId |-> JStr(<<"T","e","s","t"," ","1">>),
    traceId |-> JStr(<<"t">>), scenario |-> JStr(<<"s">>),
    expectedResult |-> JStr(<<"e">>),
    result |-> JStr(<<"e","r","r","o","r">>),
    fuzzer |-> JStr(<<"R","a","n","d","o","m","R","e","s","o","u","r","c","e","s">>),
    path |-> JStr(<<"/","a">>), server |-> JStr(<<"h">>),
    request |-> JDict([httpMethod |-> JStr(<<"G","E","T">>), url |-> JNull]),
    response |-> JDict([httpMethod |-> JStr(<<"G","E","T">>),
    responseCode |-> JInt(405)])]),
  JDict([testId |-> JStr(<<"T","e","s","t"," ","1">>),
    traceId |-> JStr(<<"t">>), scenario |-> JStr(<<"s">>),
    expectedResult |-> JStr(<<"e">>),
    result |-> JStr(<<"e","r","r","o","r">>), fuzzer |-> JStr(<<"Z","Z">>),
    path |-> JStr(<<"/","a">>), server |-> JStr(<<"h">>),
    request |-> JDict([httpMethod |-> JStr(<<"G","E","T">>),
    url |-> JStr(<<"u">>)]),
    response |-> JDict([responseCode |-> JStr(<<"4","2","9">>)])]),
  JDict([testId |-> JStr(<<"T","e","s","t"," ","1">>),
    traceId |-> JStr(<<"t">>), scenario |-> JStr(<<"s">>),
    expectedResult |-> JStr(<<"e">>),
    result |-> JStr(<<"e","r","r","o","r">>), fuzzer |-> JStr(<<"Z","Z">>),
    path |-> JStr(<<"/","a">>), server |-> JStr(<<"h">>),
    request |-> JDict(EmptyDict), response |-> JDict(EmptyDict)]),
  JDict([testId |-> JStr(<<"T","e","s","t"," ","1">>),
    traceId |-> JStr(<<"t">>), scenario |-> JInt(7),
    expectedResult |-> JStr(<<"e">>), result |-> JStr(<<"w","a","r","n">>),
    fuzzer |-> JStr(<<"Z","Z">>), path |-> JStr(<<"/","a">>),
    server |-> JStr(<<"h">>),
    request |-> JDict([httpMethod |-> JStr(<<"G","E","T">>),
    url |-> JStr(<<"u">>)]),
    response |-> JDict([httpMethod |-> JStr(<<"G","E","T">>),
    responseCode |-> JInt(429)])]),
  JDict([testId |-> JStr(<<"T","e","s","t"," ","1">>),
    traceId |-> JStr(<<"t">>), scenario |-> JStr(<<"s">>),
    expectedResult |-> JStr(<<"e">>),
    result |-> JStr(<<"s","k","i","p","p","e","d">>),
    fuzzer |-> JStr(<<"Z","Z">>), path |-> JStr(<<"/","a">>),
    server |-> JStr(<<"h">>),
    request |-> JDict([httpMethod |-> JStr(<<"G","E","T">>),
    url |-> JStr(<<"u">>)]),
    response |-> JDict([httpMethod |-> JStr(<<"G","E","T">>),
    responseCode |-> JInt(200)])])
  }

\* The record with another fuzzer, response code or result.
WithFuzzer(data, f) == JDict([data.v EXCEPT !.fuzzer = JStr(f)])
WithCode(data, code) ==
  JDict([data.v EXCEPT !.response = JDict([@.v EXCEPT !.responseCode = JInt(code)])])
WithResult(data, r) == JDict([data.v EXCEPT !.result = JStr(r)])

\* Each probe from each fuzzer its rule names and from its own, with its own
\* response code and with 429, as a failure and as a success.
Variants(p) ==
  {WithResult(WithCode(WithFuzzer(p.rec, f), code), r) :
     f \in p.fuzzers \cup {p.rec.v.fuzzer.v},
     code \in {p.rec.v.response.v.responseCode.v, 429},
     r \in {p.rec.v.result.v, s_success}}

Records == UNION {Variants(Probes[k]) : k \in DOMAIN Probes} \cup Malformed

\* ------------------------------------------------------------------------
\* The schema
\* ------------------------------------------------------------------------

\* The objects SCHEMA_SQL, INDEX_SQL and VIEWS_SQL name.
SchemaObjects ==
  [tables |->
     {"result_types", "fuzzers", "servers", "paths", "http_methods", "tests",
      "requests", "responses", "request_headers", "response_headers"},
   indexes |->
     {"idx_tests_result_type", "idx_tests_fuzzer", "idx_tests_path",
      "idx_tests_test_number", "idx_tests_result_fuzzer",
      "idx_tests_fuzzer_path", "idx_tests_false_positive",
      "idx_tests_fp_rule", "idx_requests_test_id", "idx_requests_method",
      "idx_responses_test_id", "idx_responses_code", "idx_responses_time",
      "idx_responses_code_time", "idx_req_headers_request_id",
      "idx_req_headers_key", "idx_req_headers_key_value",
      "idx_resp_headers_response_id", "idx_resp_headers_key",
      "idx_resp_headers_key_value"},
   views |->
     {"test_results_view", "test_results_filtered_view", "fp_rule_stats_view",
      "fuzzer_stats_view", "path_error_analysis_view",
      "response_code_stats_view"}]

\* Variant: CREATE without IF NOT EXISTS, which fails on a name that
\* exists.  C24 does not survive it.
CreateAnew(have, names) ==
  [raised |-> have \cap names # {}, objs |-> have \cup names]

\* One script of CREATE ... IF NOT EXISTS statements on a store that has
\* the objects have: each name is created unless it exists.
CreateIfNotExists(have, names) ==
  [raised |-> FALSE, objs |-> have \cup names]

\* CATSResultsParser.create_schema on a store st = [schema, db]: the three
\* scripts in order, the first that raises ending the call.  No statement
\* touches a row.
create_schema(st) ==
  LET t == CreateIfNotExists(st.schema.tables, SchemaObjects.tables)
      x == CreateIfNotExists(st.schema.indexes, SchemaObjects.indexes)
      v == CreateIfNotExists(st.schema.views, SchemaObjects.views)
  IN  IF t.raised
      THEN [raised |-> TRUE, schema |-> st.schema, db |-> st.db]
      ELSE IF x.raised
      THEN [raised |-> TRUE, db |-> st.db,
            schema |-> [st.schema EXCEPT !.tables = t.objs]]
      ELSE [raised |-> v.raised, db |-> st.db,
            schema |-> [tables |-> t.objs, indexes |-> x.objs,
                        views |-> IF v.raised THEN st.schema.views ELSE v.objs]]

\* ------------------------------------------------------------------------
\* main and process_directory as a state machine
\* ------------------------------------------------------------------------

VARIABLES
  glob,            \* input_dir.glob('Test*.json'): the files as enumerated
  batch_size,      \* --batch-size
  pc,              \* position in process_directory
  json_files,      \* the sorted files
  i,               \* files visited so far
  batch,           \* the pending batch (files whose record it holds)
  j,               \* next element of batch to insert, inside the transaction
  db,              \* the store as the connection sees it
  committed,       \* the durable store: what the last commit left
  cache,           \* the five dimension caches
  stats,           \* processed / errors / skipped
  fate,            \* history: what happened to each file's record in this run
  txn_result,      \* history: how each file's batch ended in this run
  commit_failures, \* history: commits that failed so far
  rerun,           \* TRUE in the second run against the same store
  record,          \* the record handed to detect_false_positive
  verdict,         \* what detect_false_positive returned, or NotCalled
  args,            \* --input, --output and --create-schema
  schema,          \* the tables, indexes and views the store has
  exit_code        \* <<>> while the process runs, then <<0>> or <<1>>

vars == <<glob, batch_size, pc, json_files, i, batch, j, db, committed, cache,
          stats, fate, txn_result, commit_failures, rerun, record, verdict,
          args, schema, exit_code>>

ZeroStats == [processed |-> 0, errors |-> 0, skipped |-> 0]

NotCalled == [raised |-> FALSE, is_fp |-> FALSE, rule |-> [kind |-> "none", v |-> <<>>]]

\* --input is a directory, is missing, or is a file; --output is the path of
\* a database that does not exist yet, of one an earlier run left (with its
\* schema), ":memory:", or a path that cannot be opened.
Arguments ==
  [input : {"dir", "missing", "file"},
   output : {"new", "existing", "memory", "unopenable"},
   create_schema : BOOLEAN]

\* The arguments that build a new database: --create-schema ("use for new
\* database") and an output path that does not exist yet.
DefaultArgs == [input |-> "dir", output |-> "new", create_schema |-> TRUE]

\* main is entered: nothing is constructed yet.  Other arguments than the
\* default ones are run on directories of at most MaxFilesOtherArgs files.
Init ==
  /\ args \in Arguments
  /\ glob \in Listings
  /\ batch_size \in 1..MaxBatchSize
  /\ args # DefaultArgs => Len(glob) <= MaxFilesOtherArgs /\ batch_size = 1
  /\ args.input # "dir" => glob = <<>>
  /\ schema = IF args.output = "existing" THEN SchemaObjects
              ELSE [kind \in DOMAIN SchemaObjects |-> {}]
  /\ exit_code = <<>>
  /\ pc = "main"
  /\ json_files = <<>>
  /\ i = 0
  /\ batch = <<>>
  /\ j = 1
  /\ db = EmptyDb
  /\ committed = EmptyDb
  /\ cache = EmptyCaches
  /\ stats = ZeroStats
  /\ fate = [f \in FileIds |-> "pending"]
  /\ txn_result = [f \in FileIds |-> "none"]
  /\ commit_failures = 0
  /\ rerun = FALSE
  /\ record = JNull
  /\ verdict = NotCalled

\* main, lines 1470-1489: the input path is validated (exit 1), the parser
\* is constructed and connected (sqlite3.connect raises on a path it cannot
\* open: exit 1), and the schema is created when --create-schema is given
\* or the output path does not exist.  connect() has created the file by
\* then, so the path exists unless it is ":memory:".
Setup ==
  /\ pc = "main"
  /\ IF args.input # "dir" \/ args.output = "unopenable"
     THEN /\ pc' = "exit" /\ exit_code' = <<1>>
          /\ UNCHANGED <<schema, db, committed>>
     ELSE IF args.create_schema \/ args.output = "memory"
     THEN LET r == create_schema([schema |-> schema, db |-> db])
          IN  /\ pc' = IF r.raised THEN "exit" ELSE "start"
              /\ exit_code' = IF r.raised THEN <<1>> ELSE exit_code
              /\ schema' = r.schema
              /\ db' = r.db
              /\ committed' = r.db          \* executescript commits
     ELSE /\ pc' = "start" /\ exit_code' = exit_code
          /\ UNCHANGED <<schema, db, committed>>
  /\ UNCHANGED <<glob, batch_size, json_files, i, batch, j,
                 cache, stats, fate, txn_result, commit_failures, rerun,
                 record, verdict, args>>

\* Lines 1297-1309: discover and sort; return when nothing is found, else
\* load the caches.  Without the tables _load_caches raises; nothing in
\* process_directory catches it, and main's handler exits 1 (lines
\* 1500-1504).
Start ==
  /\ pc = "start"
  /\ json_files' = Sorted(glob)
  /\ IF glob = <<>>
     THEN pc' = "done" /\ cache' = cache /\ exit_code' = exit_code
     ELSE IF ~(SchemaObjects.tables \subseteq schema.tables)
     THEN pc' = "exit" /\ cache' = cache /\ exit_code' = <<1>>
     ELSE pc' = "loop" /\ cache' = load_caches(db) /\ exit_code' = exit_code
  /\ i' = 0 /\ batch' = <<>> /\ j' = 1
  /\ UNCHANGED <<glob, batch_size, db, committed, stats, fate, txn_result,
                 commit_failures, rerun, record, verdict, args, schema>>

\* Lines 1313-1322: visit the next file; parse it; batch it or count it as
\* skipped; enter the transaction when the batch is due.
NextFile ==
  /\ pc = "loop"
  /\ i < Len(json_files)
  /\ LET f    == json_files[i + 1]
         data == parse_json_file(Catalog[f].content)
         b    == IF Truthy(data) THEN Append(batch, f) ELSE batch
     IN  /\ i' = i + 1
         /\ batch' = b
         /\ stats' = IF Truthy(data) THEN stats ELSE [stats EXCEPT !.skipped = @ + 1]
         /\ fate' = [fate EXCEPT ![f] = IF Truthy(data) THEN "batched" ELSE "skipped"]
         /\ pc' = IF Len(b) >= batch_size \/ i + 1 = Len(json_files) THEN "txn"
                  ELSE IF i + 1 = Len(json_files) THEN "done"   \* the loop ends
                  ELSE "loop"
         /\ j' = 1
  /\ UNCHANGED <<glob, batch_size, json_files, db, committed, cache, txn_result,
                 commit_failures, rerun,
                 record, verdict, args, schema, exit_code>>

\* self.stats['processed'] += 1
CountProcessed(st) == [st EXCEPT !.processed = @ + 1]

\* Variant: a per-record handler that does not count.  C3 does not
\* survive it.
CountNoError(st) == st

\* self.stats['errors'] += 1
CountError(st) == [st EXCEPT !.errors = @ + 1]

\* The outcome of insert_test_record on the batch's next record.
Inserting ==
  insert_test_record([db |-> db, cache |-> cache],
                     parse_json_file(Catalog[batch[j]].content), Name(batch[j]))

\* Lines 1325-1328: the record is inserted.
InsertOk ==
  /\ pc = "txn" /\ j <= Len(batch)
  /\ ~Inserting.raised
  /\ db' = Inserting.s.db
  /\ cache' = Inserting.s.cache
  /\ stats' = CountProcessed(stats)
  /\ fate' = [fate EXCEPT ![batch[j]] = "ok"]
  /\ j' = j + 1
  /\ UNCHANGED <<glob, batch_size, pc, json_files, i, batch, committed,
                 txn_result, commit_failures, rerun,
                 record, verdict, args, schema, exit_code>>

\* Lines 1329-1331: insert_test_record raised; the per-record handler counts
\* the error and the loop goes on.  What the call wrote before raising stays
\* in the transaction.
InsertRaises ==
  /\ pc = "txn" /\ j <= Len(batch)
  /\ Inserting.raised
  /\ db' = Inserting.s.db
  /\ cache' = Inserting.s.cache
  /\ stats' = CountError(stats)
  /\ fate' = [fate EXCEPT ![batch[j]] = "raised"]
  /\ j' = j + 1
  /\ UNCHANGED <<glob, batch_size, pc, json_files, i, batch, committed,
                 txn_result, commit_failures, rerun,
                 record, verdict, args, schema, exit_code>>

\* Variant: the end of a batch that keeps the pending batch.  C21 does not
\* survive it.
KeepBatch ==
  /\ batch' = batch
  /\ j' = 1
  /\ pc' = IF i = Len(json_files) THEN "done" ELSE "loop"

\* Line 1343 and the loop's end: batch = [], next file or return.
EndBatch ==
  /\ batch' = <<>>
  /\ j' = 1
  /\ pc' = IF i = Len(json_files) THEN "done" ELSE "loop"

InBatch(f) == \E k \in DOMAIN batch : batch[k] = f

\* Variant: a commit that makes nothing durable.  C9 does not survive it.
CommitNothing(view, durable) == durable

\* conn.commit(): the connection's view becomes the durable store.
CommitView(view, durable) == view

\* transaction(), line 306: the batch is committed.
Commit ==
  /\ pc = "txn" /\ j > Len(batch)
  /\ committed' = CommitView(db, committed)
  /\ txn_result' = [f \in FileIds |->
                      IF InBatch(f) THEN "committed" ELSE txn_result[f]]
  /\ EndBatch
  /\ UNCHANGED <<glob, batch_size, json_files, i, db, cache, stats, fate,
                 commit_failures, rerun,
                 record, verdict, args, schema, exit_code>>

\* Variant: a rollback that undoes nothing.  C4 does not survive it.
KeepView(view, durable) == view

\* conn.rollback(): the connection's view is the durable store again.
Rollback(view, durable) == durable

\* transaction(), lines 307-310, and lines 1332-1334: the commit raises; the
\* transaction is rolled back, the batch-level handler counts the whole
\* batch as errors, and the loop goes on.
CommitFails ==
  /\ pc = "txn" /\ j > Len(batch)
  /\ commit_failures < MaxCommitFailures
  /\ commit_failures' = commit_failures + 1
  /\ db' = Rollback(db, committed)
  /\ stats' = [stats EXCEPT !.errors = @ + Len(batch)]
  /\ txn_result' = [f \in FileIds |->
                      IF InBatch(f) THEN "rolled_back" ELSE txn_result[f]]
  /\ EndBatch
  /\ UNCHANGED <<glob, batch_size, json_files, i, committed, cache, fate, rerun,
                 record, verdict, args, schema, exit_code>>

\* Variant: a close that commits the open transaction.  C19 does not
\* survive it.
CommitOnClose(view, durable) == view

\* conn.close() with a transaction open, or the death of the process: what
\* was not committed is discarded.
Close(view, durable) == durable

\* The process is interrupted inside process_directory (KeyboardInterrupt,
\* which neither transaction()'s nor main's "except Exception" catches, so
\* that only main's finally runs close(); or a kill).  The store is left,
\* and the counters as last logged.
Interrupt ==
  /\ pc \in {"start", "loop", "txn"}
  /\ pc' = "interrupted"
  /\ committed' = Close(db, committed)
  /\ db' = Close(db, committed)
  /\ i' = 0 /\ batch' = <<>> /\ j' = 1
  /\ cache' = EmptyCaches
  /\ UNCHANGED <<glob, batch_size, json_files, stats, fate, txn_result,
                 commit_failures, rerun, record, verdict, args, schema,
                 exit_code>>

\* main, lines 1494-1506: process_directory has returned; analyze(), then
\* print_statistics(), which raises when a table is missing (SELECT
\* COUNT(*)) and when the output is ":memory:" (os.path.getsize); main's
\* handler logs the exception and exits 1; else the process exits 0.  The
\* connection is closed either way.
StatisticsRaise ==
  ~(SchemaObjects.tables \subseteq schema.tables) \/ args.output = "memory"

PrintStatistics ==
  /\ pc = "done"
  /\ pc' = "exit"
  /\ exit_code' = IF StatisticsRaise THEN <<1>> ELSE <<0>>
  /\ UNCHANGED <<glob, batch_size, json_files, i, batch, j, db, committed,
                 cache, stats, fate, txn_result, commit_failures, rerun,
                 record, verdict, args, schema>>

\* After a run that exited 0 the script is run again on the same directory
\* and the same output database, which exists now: a new process on the
\* durable store.
NewRun ==
  /\ pc = "exit" /\ exit_code = <<0>>
  /\ ~rerun
  /\ rerun' = TRUE
  /\ pc' = "main"
  /\ exit_code' = <<>>
  /\ args' = [args EXCEPT !.output = "existing"]
  /\ json_files' = <<>>
  /\ i' = 0 /\ batch' = <<>> /\ j' = 1
  /\ db' = committed
  /\ cache' = EmptyCaches
  /\ stats' = ZeroStats
  /\ fate' = [f \in FileIds |-> "pending"]
  /\ txn_result' = [f \in FileIds |-> "none"]
  /\ UNCHANGED <<glob, batch_size, committed, commit_failures,
                 record, verdict, schema>>

Next ==
  \/ Setup
  \/ Start
  \/ NextFile
  \/ InsertOk
  \/ InsertRaises
  \/ Commit
  \/ CommitFails
  \/ Interrupt
  \/ PrintStatistics
  \/ NewRun

Spec == Init /\ [][Next]_vars

\* ------------------------------------------------------------------------
\* Properties
\* ------------------------------------------------------------------------

DimTables == {"result_types", "fuzzers", "servers", "paths", "http_methods"}

\* The rows of table t of store d that reference tests row r
Referencing(d, t, r) == {x \in d[t] : x.test_id = r.id}

\* The files of this run whose record insert_test_record raised on, and
\* those whose batch was rolled back
RaisedFiles     == {f \in FileIds : fate[f] = "raised"}
RolledBackFiles == {f \in FileIds : txn_result[f] = "rolled_back"}

\* C1: every committed tests row has exactly one requests row and exactly
\* one responses row referencing it, whatever batches were handled,
\* including batches in which insert_test_record raised and was caught.
C1_OneRequestOneResponse ==
  \A r \in committed.tests :
    /\ Cardinality(Referencing(committed, "requests", r)) = 1
    /\ Cardinality(Referencing(committed, "responses", r)) = 1

\* C2: in every tests row, written or committed, is_false_positive is 1
\* exactly when fp_rule is not NULL; and on every record about to be
\* inserted detect_false_positive returns (True, rule) with a rule, or
\* (False, None).
C2_FalsePositiveIffRule ==
  /\ \A r \in db.tests \cup committed.tests :
       (r.is_false_positive = 1) <=> (r.fp_rule # Null)
  /\ (pc = "txn" /\ j <= Len(batch)) =>
       LET data == parse_json_file(Catalog[batch[j]].content)
           fp   == detect_false_positive(data)
       IN  (data.kind = "dict" /\ ~fp.raised) =>
             \/ fp.is_fp /\ fp.rule.kind = "str" /\ fp.rule.v # <<>>
             \/ ~fp.is_fp /\ fp.rule = JNull

\* C2 happens: a committed row classified as a false positive with its rule,
\* and a committed row that is not one.
C2_Witness ==
  /\ \E r \in committed.tests :
       r.is_false_positive = 1 /\ r.fp_rule = FP_RULE.RATE_LIMIT
  /\ \E r \in committed.tests :
       r.is_false_positive = 0 /\ r.fp_rule = Null

\* C3: a record on which insert_test_record raises costs exactly one error;
\* the errors counter is the number of such records plus the sizes of the
\* rolled-back batches; every record inserted without exception in a
\* committed batch has its tests row committed, failing siblings or not;
\* and at the end every file has been visited and every batched record's
\* batch has been through its transaction.
C3_RecordFailureIsLocal ==
  /\ stats.errors = Cardinality(RaisedFiles) + Cardinality(RolledBackFiles)
  /\ \A f \in FileIds :
       (fate[f] = "ok" /\ txn_result[f] = "committed") =>
         \E r \in committed.tests : r.source_file = Name(f)
  /\ pc = "done" =>
       \A k \in DOMAIN glob :
         /\ fate[glob[k]] \in {"ok", "raised", "skipped"}
         /\ fate[glob[k]] \in {"ok", "raised"} => txn_result[glob[k]] # "none"

\* C3 happens: three valid records, batch size 2, the first record of the
\* first batch raised: 1 error and 1 insert in the first batch, 1 insert in
\* the second, and both commits succeeded.
C3_Witness ==
  /\ pc = "done" /\ ~rerun /\ commit_failures = 0
  /\ batch_size = 2 /\ Len(json_files) = 3
  /\ fate[json_files[1]] = "raised"
  /\ fate[json_files[2]] = "ok" /\ fate[json_files[3]] = "ok"
  /\ stats = [processed |-> 2, errors |-> 1, skipped |-> 0]

\* C4: when the commit of a batch fails, the store is again exactly the
\* durable store of before the batch (nothing the batch wrote remains, and
\* nothing of it was committed), the errors counter grows by the size of
\* the batch, and process_directory goes on with the next file, or returns
\* when there is none.
C4_FailedBatchIsRolledBack ==
  [][commit_failures' # commit_failures =>
       /\ db' = committed /\ committed' = committed
       /\ stats'.errors = stats.errors + Len(batch)
       /\ batch' = <<>>
       /\ pc' = IF i = Len(json_files) THEN "done" ELSE "loop"]_vars

\* C4 happens: a batch holding an inserted record was rolled back, its rows
\* are gone, and the loop is at the next file.
C4_Witness ==
  /\ commit_failures = 1 /\ pc = "loop" /\ ~rerun
  /\ \E f \in FileIds :
       /\ fate[f] = "ok" /\ txn_result[f] = "rolled_back"
       /\ \A r \in db.tests : r.source_file # Name(f)

\* The orders in which the directory enumeration can return glob's files
Enumerations ==
  {q \in [DOMAIN glob -> {glob[k] : k \in DOMAIN glob}] :
     \A a, b \in DOMAIN q : a # b => q[a] # q[b]}

\* C5: the files are submitted in an order that does not depend on the
\* order the directory enumeration returned them in: every enumeration of
\* the same files is sorted into the sequence this run inserts in.
C5_OrderIndependentOfEnumeration ==
  pc \in {"loop", "txn", "done"} => \A q \in Enumerations : Sorted(q) = json_files

\* The parser state of the run
ParserState == [db |-> db, cache |-> cache]

\* A get_or_create_* call from state s with outcome r returned the id of a
\* row of table t whose column col holds text, and calling again returns
\* the same id.
ReturnsStoredRow(r, again, t, col, text) ==
  /\ ~r.raised
  /\ \E row \in r.s.db[t] : row.id = r.val /\ row[col] = text
  /\ ~again.raised /\ again.val = r.val

\* C6: while a run processes files, every get_or_create_* call returns the
\* id of a stored row with the argument as its natural key, whether or not
\* the key is already stored or cached, and a repeated call returns the
\* same id.
C6_GetOrCreateReturnsStoredRow ==
  pc \in {"loop", "txn"} =>
    /\ \A n \in {s_warn, s_error, s_success} :
         LET r == get_or_create_result_type(ParserState, JStr(n))
         IN  ReturnsStoredRow(r, get_or_create_result_type(r.s, JStr(n)),
                              "result_types", "name", n)
    /\ \A n \in {s_HappyPath, s_NewFields} :
         LET r == get_or_create_fuzzer(ParserState, JStr(n))
         IN  ReturnsStoredRow(r, get_or_create_fuzzer(r.s, JStr(n)),
                              "fuzzers", "name", n)
    /\ LET r == get_or_create_server(ParserState, JStr(s_host))
       IN  ReturnsStoredRow(r, get_or_create_server(r.s, JStr(s_host)),
                            "servers", "base_url", s_host)
    /\ \A n \in {s_GET, s_POST} :
         LET r == get_or_create_method(ParserState, JStr(n))
         IN  ReturnsStoredRow(r, get_or_create_method(r.s, JStr(n)),
                              "http_methods", "method", n)
    /\ \A n \in {s_slash_a, s_slash_b} : \A cp \in {<<>>, s_slash_a, s_slash_x} :
         LET r == get_or_create_path(ParserState, JStr(n), JStr(cp))
         IN  /\ ReturnsStoredRow(r, get_or_create_path(r.s, JStr(n), JStr(cp)),
                                 "paths", "path", n)
             /\ \E row \in r.s.db.paths :
                  /\ row.id = r.val
                  /\ row.contract_path = IF cp = <<>> THEN Null ELSE cp

\* C7: at every point of the loop over the files, every entry of the five
\* caches is an entry of the caches _load_caches would rebuild from the
\* store as the connection sees it.
C7_CachesAgreeWithStore ==
  pc \in {"loop", "txn"} =>
    \A c \in DOMAIN cache :
      \A k \in DOMAIN cache[c] :
        /\ k \in DOMAIN load_caches(db)[c]
        /\ load_caches(db)[c][k] = cache[c][k]

\* The column holding the natural key of each dimension table
KeyColumn ==
  [result_types |-> "name", fuzzers |-> "name", servers |-> "base_url",
   paths |-> "path", http_methods |-> "method"]

\* C8: no dimension table, in the store as the connection sees it or as
\* committed, in the first run or the second, ever holds two rows for one
\* natural key.
C8_NoDuplicateDimensionRows ==
  \A d \in {db, committed} :
    \A t \in DimTables :
      \A r1, r2 \in d[t] : r1[KeyColumn[t]] = r2[KeyColumn[t]] => r1 = r2

\* C8 happens: the second run against the same store is over; it resolved
\* again the keys of records the first run stored, two of which share a
\* fuzzer row.
C8_Witness ==
  /\ rerun /\ pc = "done"
  /\ \E r1, r2 \in committed.tests :
       /\ r1 # r2 /\ r1.fuzzer_id = r2.fuzzer_id
       /\ \E x \in committed.fuzzers : x.id = r1.fuzzer_id
       /\ \E f \in FileIds : fate[f] = "raised" /\ r1.source_file = Name(f)

\* The store after inserting, in one transaction, the records of files
\* from k on, starting from parser state s
RECURSIVE InsertAll(_, _, _)
InsertAll(s, files, k) ==
  IF k > Len(files) THEN s
  ELSE LET data == parse_json_file(Catalog[files[k]].content)
       IN  IF Truthy(data)
           THEN InsertAll(insert_test_record(s, data, Name(files[k])).s,
                          files, k + 1)
           ELSE InsertAll(s, files, k + 1)

\* The store one run leaves from store d when it commits once, at the end
OneTransaction(d, files) ==
  InsertAll([db |-> d, cache |-> load_caches(d)], files, 1).db

\* C9: when no commit failed, the store a run leaves is the store the same
\* ordered input gives when committed once at the end, whatever the batch
\* size, in the first run and in the second, records whose insert raised
\* included.
C9_BatchSizeIrrelevant ==
  (pc = "done" /\ commit_failures = 0 /\ json_files # <<>>) =>
    /\ db = committed
    /\ committed =
         IF rerun
         THEN OneTransaction(OneTransaction(EmptyDb, json_files), json_files)
         ELSE OneTransaction(EmptyDb, json_files)

\* C9 happens: a run of three batched records with batch size 1, so three
\* commits, one record raising and the others inserted.
C9_Witness ==
  /\ pc = "done" /\ ~rerun /\ commit_failures = 0 /\ batch_size = 1
  /\ stats.processed = 2 /\ stats.errors = 1
  /\ Cardinality(committed.tests) >= 2

\* A file that is not a JSON object holding the ten required fields
Invalid(f) ==
  \/ Catalog[f].content.kind # "dict"
  \/ ~(required_fields \subseteq DOMAIN Catalog[f].content.v)

\* C10: a file that cannot be parsed or lacks a required top-level field is
\* skipped when visited, never batched, and the skipped counter is the
\* number of such files visited.
C10_InvalidFileIsSkipped ==
  /\ \A k \in DOMAIN glob :
       Invalid(glob[k]) => fate[glob[k]] \in {"pending", "skipped"}
  /\ stats.skipped =
       Cardinality({f \in FileIds : Invalid(f) /\ fate[f] # "pending"})

\* ------------------------------------------------------------------------
\* detect_false_positive called on its own
\* ------------------------------------------------------------------------

\* The parsers a call may be made on: a new one, and one whose run over
\* files 1 and 2 has ended with both records committed.
Parsers ==
  {[glob |-> <<>>, db |-> EmptyDb, cache |-> EmptyCaches, stats |-> ZeroStats,
    fate |-> [f \in FileIds |-> "pending"],
    txn_result |-> [f \in FileIds |-> "none"]],
   LET s == InsertAll([db |-> EmptyDb, cache |-> EmptyCaches], <<1, 2>>, 1)
   IN  [glob |-> <<1, 2>>, db |-> s.db, cache |-> s.cache,
        stats |-> [processed |-> 2, errors |-> 0, skipped |-> 0],
        fate |-> [f \in FileIds |-> IF f \in {1, 2} THEN "ok" ELSE "pending"],
        txn_result |-> [f \in FileIds |->
                          IF f \in {1, 2} THEN "committed" ELSE "none"]]}

\* A parser after process_directory, and a record to classify.
ClassifyInit ==
  /\ \E p \in Parsers :
       /\ glob = p.glob /\ json_files = p.glob /\ i = Len(p.glob)
       /\ db = p.db /\ committed = p.db /\ cache = p.cache
       /\ stats = p.stats /\ fate = p.fate /\ txn_result = p.txn_result
  /\ batch_size = 1
  /\ args = DefaultArgs
  /\ schema = SchemaObjects
  /\ exit_code = <<>>
  /\ pc = "done"
  /\ batch = <<>>
  /\ j = 1
  /\ commit_failures = 0
  /\ rerun = FALSE
  /\ record \in Records
  /\ verdict = NotCalled

\* Variant: a classifier that consults the store.  C13 does not survive it.
ClassifyByStore ==
  /\ verdict' = IF db.tests = {} THEN detect_false_positive(record)
                ELSE FpReturn(FALSE, JNull)
  /\ UNCHANGED <<glob, batch_size, pc, json_files, i, batch, j, db, committed,
                 cache, stats, fate, txn_result, commit_failures, rerun,
                 record, args, schema, exit_code>>

\* is_fp, fp_rule = self.detect_false_positive(data)
Classify ==
  /\ verdict' = detect_false_positive(record)
  /\ UNCHANGED <<glob, batch_size, pc, json_files, i, batch, j, db, committed,
                 cache, stats, fate, txn_result, commit_failures, rerun,
                 record, args, schema, exit_code>>

\* Lines 1324-1331 on a batch of this one record: insert_test_record under
\* the per-record handler, inside a transaction that commits.
InsertRecord ==
  /\ stats.processed + stats.errors < Len(glob) + MaxInserts
  /\ LET o == insert_test_record([db |-> db, cache |-> cache], record, Name(1))
     IN  /\ db' = o.s.db
         /\ cache' = o.s.cache
         /\ committed' = CommitView(o.s.db, committed)
         /\ stats' = IF o.raised THEN CountError(stats) ELSE CountProcessed(stats)
  /\ UNCHANGED <<glob, batch_size, pc, json_files, i, batch, j, fate,
                 txn_result, commit_failures, rerun, record, verdict,
                 args, schema, exit_code>>

ClassifyNext ==
  \/ Classify
  \/ InsertRecord

ClassifySpec == ClassifyInit /\ [][ClassifyNext]_vars

\* C11: on a record whose result is success, detect_false_positive returns
\* (False, None), whatever the response code, fuzzer, path, reason text or
\* body; and no tests row, written or committed, whose result type is
\* success has is_false_positive = 1.
C11_SuccessIsNeverFalsePositive ==
  /\ (verdict # NotCalled /\ record.v.result = JStr(s_success)) =>
       verdict = FpReturn(FALSE, JNull)
  /\ \A d \in {db, committed} : \A r \in d.tests : \A t \in d.result_types :
       (t.id = r.result_type_id /\ t.name = s_success) => r.is_false_positive = 0

\* C11 happens: a success record answered 429 has been classified, and
\* inserted into a new store, where its row is committed.
C11_Witness ==
  /\ verdict # NotCalled
  /\ stats = [processed |-> 1, errors |-> 0, skipped |-> 0]
  /\ record.v.result = JStr(s_success)
  /\ record.v.response.v.responseCode = JInt(429)
  /\ \E r \in committed.tests : \E t \in committed.result_types :
       /\ r.source_file = Name(1) /\ r.test_id = record.v.testId.v
       /\ t.id = r.result_type_id /\ t.name = s_success

\* The record's response code is 429
Is429(data) == response_of(data).kind = "dict" /\ response_code(data) = JInt(429)

C14_NeverRaises ==
  (verdict # NotCalled /\ parse_json_file(record) = record) =>
    /\ ~verdict.raised
    /\ \/ verdict.is_fp /\ verdict.rule.kind = "str"
       \/ verdict = FpReturn(FALSE, JNull)

\* The rules, by position in source order, whose condition holds, given
\* the rules' outcomes on a record
Holding(outs) == {k \in DOMAIN outs : outs[k].out = "hit"}

\* The pair v is the id of the first rule that holds, or (False, None) when
\* none holds
FirstThatHolds(outs, v) ==
  /\ v.is_fp <=> Holding(outs) # {}
  /\ ~v.is_fp => v = FpReturn(FALSE, JNull)
  /\ v.is_fp =>
       \E k \in Holding(outs) :
         /\ \A m \in Holding(outs) : k <= m
         /\ v = FpReturn(TRUE, JStr(outs[k].rule))

\* C15: on a record whose result is error or warn, a call that returns
\* returns the id of the first rule in source order whose condition holds,
\* and returns (False, None) exactly when no rule's condition holds.
C15_FirstRuleInSourceOrder ==
  (/\ verdict # NotCalled /\ ~verdict.raised
   /\ result_lower(record) \in {s_error, s_warn}) =>
    FirstThatHolds(Rules(record), verdict)

\* Two rules with different ids hold, and v is the id of the earlier one
EarlierOfTwo(outs, v) ==
  \E k, m \in Holding(outs) :
    k < m /\ outs[k].rule # outs[m].rule /\ v.rule = JStr(outs[k].rule)

\* C15 happens: the conditions of two rules with different ids hold of the
\* classified record, and the id returned is the earlier rule's.
C15_Witness ==
  /\ verdict # NotCalled /\ verdict.is_fp
  /\ EarlierOfTwo(Rules(record), verdict)

\* Some record from fuzzer fz (from any fuzzer when fz is <<>>) obtains rule id
Obtainable(id, fz) ==
  \E r \in Records :
    /\ fz # <<>> => r.v.fuzzer = JStr(fz)
    /\ detect_false_positive(r) = FpReturn(TRUE, JStr(id))

\* C16: no rule is shadowed: every rule id is obtained by some record, and
\* for every fuzzer that a rule's condition names, some record from that
\* fuzzer obtains that rule's id.
C16_NoRuleShadowed ==
  /\ \A n \in DOMAIN FP_RULE : Obtainable(FP_RULE[n], <<>>)
  /\ \A k \in DOMAIN Probes :
       \A fz \in Probes[k].fuzzers : Obtainable(Probes[k].rule, fz)

\* C17: when print_statistics raises after process_directory has returned,
\* the process still exits 0.
C17_ReportingFailureKeepsExitCode ==
  [][(pc = "done" /\ StatisticsRaise /\ pc' = "exit") => exit_code' = <<0>>]_vars

\* C18: the process exits 0 whenever the input directory exists and the
\* output store opens, whatever was skipped, failed or rolled back, and
\* exits 1 only when the input path is missing or not a directory or the
\* store cannot be opened.
C18_ExitOneOnlyForSetupFailures ==
  pc = "exit" =>
    (exit_code = <<1>> <=> (args.input # "dir" \/ args.output = "unopenable"))

\* The files with a tests row in store d
FilesIn(d) == {f \in FileIds : \E r \in d.tests : r.source_file = Name(f)}

\* C19: the durable store changes only when a commit completes, and then
\* becomes what the connection sees; an interruption at any point of
\* process_directory leaves it as the last completed commit left it, with
\* no row, fact or dimension, of the batch in flight: in a first run, the
\* files with a tests row are files of committed batches, and every record
\* inserted in a committed batch has its row.
C19_InterruptionKeepsCommittedBatches ==
  [][ /\ committed' # committed =>
           pc = "txn" /\ j > Len(batch) /\ committed' = db
      /\ pc' = "interrupted" =>
           /\ committed' = committed
           /\ db' = committed
           /\ ~rerun =>
                \A f \in FilesIn(committed') : txn_result[f] = "committed"
           /\ \A f \in FileIds :
                (fate[f] = "ok" /\ txn_result[f] = "committed") =>
                  f \in FilesIn(committed')
    ]_vars

\* C19 happens: the process was interrupted after one batch was committed
\* and while the next had a record inserted and not committed.
C19_Witness ==
  /\ pc = "interrupted" /\ ~rerun
  /\ \E f, g \in FileIds :
       /\ fate[f] = "ok" /\ txn_result[f] = "committed"
       /\ fate[g] = "ok" /\ txn_result[g] = "none"
       /\ FilesIn(committed) = {f}

\* Row r without the columns cols
Without(r, cols) == [c \in DOMAIN r \ cols |-> r[c]]

\* The row of table t of store d with the given id, without its id
Referred(d, t, id) == Without(CHOOSE x \in d[t] : x.id = id, {"id"})

\* The tests, requests and responses rows of store d as facts: without the
\* ids the store handed out, and with what their foreign keys refer to.
Facts(d) ==
  [tests |->
     {<<Without(r, {"id", "result_type_id", "fuzzer_id", "server_id", "path_id"}),
        Referred(d, "result_types", r.result_type_id),
        Referred(d, "fuzzers", r.fuzzer_id),
        Referred(d, "servers", r.server_id),
        Referred(d, "paths", r.path_id)>> : r \in d.tests},
   requests |->
     {<<Without(x, {"id", "test_id", "http_method_id"}),
        Referred(d, "tests", x.test_id).test_id,
        Referred(d, "http_methods", x.http_method_id)>> : x \in d.requests},
   responses |->
     {<<Without(x, {"id", "test_id", "http_method_id"}),
        Referred(d, "tests", x.test_id).test_id,
        Referred(d, "http_methods", x.http_method_id)>> : x \in d.responses}]

\* C20: a run from an empty store in which every commit succeeded leaves
\* the same tests, requests and responses rows, with the same
\* classifications and so the same counts, as a run from an empty store
\* over any other enumeration of the same files.
C20_SameFactsWhateverEnumeration ==
  (pc = "done" /\ ~rerun /\ commit_failures = 0) =>
    \A q \in Enumerations :
      Facts(OneTransaction(EmptyDb, Sorted(q))) = Facts(committed)

\* The files of this run whose content parse_json_file returns as a record
ValidFiles == {f \in FileIds : Truthy(parse_json_file(Catalog[f].content))}

\* C21: process_directory visits every discovered file exactly once; the
\* pending batch goes into a transaction exactly when it holds batch_size
\* records or the last file has been visited; it is empty when
\* process_directory returns; every valid record is submitted in exactly
\* one transaction; and no transaction holds more than batch_size records.
C21_EveryRecordInOneTransaction ==
  /\ [](/\ Len(batch) <= batch_size
        /\ pc \in {"loop", "txn", "done"} =>
             /\ Len(json_files) = Len(glob)
             /\ \A k \in DOMAIN glob :
                  Cardinality({m \in DOMAIN json_files : json_files[m] = glob[k]}) = 1
             /\ \A m \in DOMAIN json_files : (fate[json_files[m]] # "pending") <=> (m <= i)
        /\ pc = "done" =>
             /\ i = Len(json_files)
             /\ batch = <<>>
             /\ \A k \in DOMAIN glob :
                  glob[k] \in ValidFiles <=> txn_result[glob[k]] # "none")
  /\ [][/\ (pc = "loop" /\ pc' \in {"loop", "txn", "done"}) =>
             /\ i' = i + 1
             /\ (pc' = "txn") <=> (Len(batch') >= batch_size \/ i' = Len(json_files))
             /\ pc' # "done"
        /\ (pc = "txn" /\ pc' \in {"loop", "done"}) =>
             /\ \A f \in FileIds :
                  IF InBatch(f)
                  THEN f \in ValidFiles /\ txn_result[f] = "none" /\ txn_result'[f] # "none"
                  ELSE txn_result'[f] = txn_result[f]
             /\ \A a, b \in DOMAIN batch : a # b => batch[a] # batch[b]
             /\ batch' = <<>>]_vars

\* C21 happens: three valid records with batch size 2 went through two
\* transactions, of two records and of one, and process_directory returned.
C21_Witness ==
  /\ pc = "done" /\ ~rerun /\ batch_size = 2 /\ Len(json_files) = 3
  /\ \A k \in 1..3 : json_files[k] \in ValidFiles /\ txn_result[json_files[k]] # "none"
  /\ txn_result[json_files[1]] = "rolled_back"
  /\ txn_result[json_files[3]] = "committed"
  /\ batch = <<>>

\* C22: every tests row, written or committed, references a result_types
\* row named success, warn or error, and the result_types table holds no
\* other name, whatever records that pass the required-field check were
\* inserted.
C22_ResultTypeIsOneOfThree ==
  \A d \in {db, committed} :
    /\ \A t \in d.result_types : t.name \in {s_success, s_warn, s_error}
    /\ \A r \in d.tests :
         \E t \in d.result_types :
           t.id = r.result_type_id /\ t.name \in {s_success, s_warn, s_error}

\* The header list of block blk ("request" or "response") of the record of
\* file f: data[blk].get('headers') or []
SourceHeaders(f, blk) ==
  Or(Get(Catalog[f].content.v[blk], "headers", JNull), JList(<<>>)).v

\* The rows of header table t of store d under parent row x are one per
\* header of hs, numbered 0..Len(hs)-1 in the order of hs.
HeadersKept(d, t, parent, x, hs) ==
  LET rows == {h \in d[t] : h[parent] = x.id}
  IN  /\ Cardinality(rows) = Len(hs)
      /\ \A k \in 1..Len(hs) :
           \E h \in rows :
             /\ h.header_order = k - 1
             /\ HasItem(hs[k], "key") => h.header_key = BindText(hs[k].v.key)
             /\ HasItem(hs[k], "value") => h.header_value = BindText(hs[k].v.value)

\* C23: every committed requests row and responses row has one header row
\* per header of the record it was created from, with header_order 0..k-1
\* without gap or repeat in the order of the record's header list, headers
\* with the same key as separate rows.
C23_HeaderRowsFollowSource ==
  \A f \in FileIds : \A r \in committed.tests :
    r.source_file = Name(f) =>
      /\ \A x \in Referencing(committed, "requests", r) :
           HeadersKept(committed, "request_headers", "request_id", x,
                       SourceHeaders(f, "request"))
      /\ \A x \in Referencing(committed, "responses", r) :
           HeadersKept(committed, "response_headers", "response_id", x,
                       SourceHeaders(f, "response"))

\* The store of the state, as create_schema sees it
Store == [schema |-> schema, db |-> db]

\* create_schema applied to store st, the outcome taken as a store
Created(st) == [schema |-> create_schema(st).schema, db |-> create_schema(st).db]

\* C24: create_schema is idempotent.  On every store a run reaches (empty,
\* or holding the schema, with rows or without) it succeeds, and it
\* succeeds again on the store it left; after the second call the tables,
\* indexes and views are those after the first; and neither call changes
\* a row.  The call main makes leaves the rows of the store, seen and
\* durable, as they were.
C24_CreateSchemaIdempotent ==
  /\ [](/\ ~create_schema(Store).raised
        /\ ~create_schema(Created(Store)).raised
        /\ Created(Created(Store)) = Created(Store)
        /\ Created(Store).schema = SchemaObjects
        /\ Created(Store).db = db)
  /\ [][(pc = "main" /\ pc' # "main"
           /\ args.input = "dir" /\ args.output # "unopenable"
           /\ (args.create_schema \/ args.output = "memory")) =>
          /\ pc' = "start"
          /\ schema' = Created(Store).schema
          /\ db' = db /\ committed' = committed]_vars

\* C24 happens: the second run against a store that holds the schema and
\* committed rows has called create_schema again, and the rows are there.
C24_Witness ==
  /\ rerun /\ pc = "start" /\ args.create_schema
  /\ schema = SchemaObjects
  /\ committed.tests # {} /\ db = committed

\* C25: when the output database does not exist before the run and
\* --create-schema is not given, main has created the schema by the time
\* process_directory starts, and the run does not fail on missing tables.
C25_NewDatabaseGetsSchema ==
  (args.input = "dir" /\ args.output = "new" /\ ~args.create_schema
     /\ pc # "main") =>
    /\ SchemaObjects.tables \subseteq schema.tables
    /\ exit_code # <<1>>

\* C26: the rule ids detect_false_positive can return are exactly the
\* documented ones: each documented id is returned for at least one
\* record, and each id returned is a documented one.
C26_ReturnsExactlyDocumentedIds ==
  /\ \A id \in DocumentedRuleIds :
       \E r \in Records : detect_false_positive(r) = FpReturn(TRUE, JStr(id))
  /\ (verdict # NotCalled /\ ~verdict.raised /\ verdict.is_fp) =>
       verdict.rule.v \in DocumentedRuleIds

\* C27: in a run on an empty store, a record on which insert_test_record
\* raised has, once its batch is committed, no tests row, and so no
\* requests, responses, request_headers or response_headers row: it is
\* stored completely or not at all.
C27_RaisedRecordLeavesNoRow ==
  ~rerun =>
    \A f \in FileIds :
      (fate[f] = "raised" /\ txn_result[f] = "committed") =>
        /\ \A r \in committed.tests : r.source_file # Name(f)
        /\ \A t \in {"requests", "responses"} : \A x \in committed[t] :
             \E r \in committed.tests : r.id = x.test_id /\ r.source_file # Name(f)

\* ------------------------------------------------------------------------
\* Runs over four records
\* ------------------------------------------------------------------------

\* The directories of the four files whose record gets a tests row, in
\* every order of enumeration.
FourFiles == {1, 2, 4, 8}

FourListings ==
  {q \in [1..Cardinality(FourFiles) -> FourFiles] :
     \A a, b \in DOMAIN q : a # b => q[a] # q[b]}

\* main is entered with --create-schema and a new output path on such a
\* directory.
FourInit ==
  /\ args = DefaultArgs
  /\ glob \in FourListings
  /\ batch_size \in 1..MaxBatchSize
  /\ schema = [kind \in DOMAIN SchemaObjects |-> {}]
  /\ exit_code = <<>>
  /\ pc = "main"
  /\ json_files = <<>>
  /\ i = 0
  /\ batch = <<>>
  /\ j = 1
  /\ db = EmptyDb
  /\ committed = EmptyDb
  /\ cache = EmptyCaches
  /\ stats = ZeroStats
  /\ fate = [f \in FileIds |-> "pending"]
  /\ txn_result = [f \in FileIds |-> "none"]
  /\ commit_failures = 0
  /\ rerun = FALSE
  /\ record = JNull
  /\ verdict = NotCalled

FourSpec == FourInit /\ [][Next]_vars

\* C28: every committed tests row references, through result_type_id,
\* fuzzer_id, server_id and path_id, rows whose natural keys are the
\* result, fuzzer, server and path of the record it was created from, also
\* when a batch that first resolved and cached these values was rolled
\* back before.
C28_ForeignKeysNameTheRecord ==
  \A f \in FileIds : \A r \in committed.tests :
    r.source_file = Name(f) =>
      /\ \E t \in committed.result_types :
           t.id = r.result_type_id /\ t.name = Catalog[f].content.v.result.v
      /\ \E t \in committed.fuzzers :
           t.id = r.fuzzer_id /\ t.name = Catalog[f].content.v.fuzzer.v
      /\ \E t \in committed.servers :
           t.id = r.server_id /\ t.base_url = Catalog[f].content.v.server.v
      /\ \E t \in committed.paths :
           t.id = r.path_id /\ t.path = Catalog[f].content.v.path.v

\* C29: when process_directory returns, processed + errors + skipped is
\* the number of discovered files, rolled-back batches included.
C29_CountersAddUpToFiles ==
  (pc = "done" /\ json_files # <<>>) =>
    stats.processed + stats.errors + stats.skipped = Len(json_files)

\* C30: when process_directory returns in a run on an empty store, the
\* processed counter is the number of tests rows the run committed,
\* whatever records failed and whatever batches were rolled back.
C30_ProcessedIsCommittedRows ==
  (pc = "done" /\ ~rerun) => stats.processed = Cardinality(committed.tests)

====
